---- MODULE Spec2Model ----
(***************************************************************************)
(* Model of the paper-race simulation engine of src/game/gamestate.py:     *)
(* Coord arithmetic, PaperRaceGrid geometry, the PREffect classes, the     *)
(* PaperRacer move machine and the PaperRaceGameState turn machine.        *)
(*                                                                         *)
(* A position or a speed is a pair <<x, y>> of integers (class Coord).     *)
(* Python's None is the empty tuple.  The list possible_next_positions is  *)
(* modelled by the set of its elements: the engine only tests membership   *)
(* and emptiness, and the list never holds a position twice.               *)
(*                                                                         *)
(* An exception raised inside goto is not caught by any caller in the      *)
(* repository, so it ends the program: call.ret records it and no further  *)
(* step is taken.                                                          *)
(*                                                                         *)
(* The agents of src/game/agent.py and the loop of src/game/pygletgui.py   *)
(* that moves their racers follow the engine.                              *)
(***************************************************************************)
EXTENDS Integers, Sequences, FiniteSets, TLC

VARIABLES
    grid,              \* PaperRaceGrid: the map loaded by load_map
    racer,             \* PaperRaceGameState.racer: id -> PaperRacer
    scoreboard,        \* PaperRaceGameState.scoreboard: dict id -> steps
    finished,          \* PaperRaceGameState.finished
    current_racer_id,  \* PaperRaceGameState.current_racer_id
    call,              \* the last call of PaperRaceGameState.goto and its outcome
    probe,             \* a call of PaperRaceGrid.line on its own: p1, p2, line
    agents,            \* Main.agents: dict racer id -> agent
    alive,             \* Main.alive
    answer             \* the last call of next_position in run, its outcome and
                       \* the game state it left

vars ==
    <<grid, racer, scoreboard, finished, current_racer_id, call, probe,
      agents, alive, answer>>

(***************************************************************************)
(* Bounds                                                                  *)
(***************************************************************************)
\* the game is followed for at most MaxMoves successful moves
MaxMoves == 6

\* line is called on its own with coordinates in -MaxCoord .. MaxCoord
MaxCoord == 4

\* the game with agents is followed for at most MaxDrive successful moves
MaxDrive == 5

\* the effects are applied on their own to speeds with components in
\* -MaxSpeed .. MaxSpeed, the limit of the speed being in 0 .. MaxCap
MaxSpeed == 4

MaxCap == 3

\* _build_h is followed step by step on every map of 2 rows and BuildWidth
\* columns with a start area and a destination area
BuildWidth == 2

\* the game in which a racer crashes is followed for at most MaxCrashMoves
\* successful moves: the move into the crash, the crash and the ten moves
\* after it, with the moves of the other racer in between
MaxCrashMoves == 24

(***************************************************************************)
(* Program constants                                                       *)
(***************************************************************************)
NumRacers == 2
DefaultDuration == 3
CrashDuration == 10
CrashPriority == 5
CollisionPriority == 10
CollisionDurationOther == 2
CollisionDurationSelf == 1
\* a_star_search called with a depth that allows no entry to be popped
AStarDepth_zero == Len(<< >>)

\* the depth that next_position passes to a_star_search
AStarDepth == 1000

None == <<>>

\* the element of a set of one element
Only(S) == CHOOSE v \in S : TRUE

Racers == 0 .. (NumRacers - 1)

(***************************************************************************)
(* class Coord                                                             *)
(***************************************************************************)
Coord_add(a, b) == <<a[1] + b[1], a[2] + b[2]>>

Coord_sub(a, b) == <<a[1] - b[1], a[2] - b[2]>>

AbsInt(n) == IF n < 0 THEN -n ELSE n

MaxInt(a, b) == IF a >= b THEN a ELSE b

\* Coord.__abs__: the largest absolute component
Coord_abs(v) == MaxInt(AbsInt(v[1]), AbsInt(v[2]))

\* round() with a tie going to the neighbour above
PyRound_half_up(n, d) == (2 * n + d) \div (2 * d)

\* Python's round() of the rational n/d (d > 0): nearest integer, a tie
\* goes to the even neighbour.  \div rounds towards minus infinity.
PyRound(n, d) ==
    LET q == (2 * n + d) \div (2 * d)
        tie == ((2 * n + d) % (2 * d)) = 0
    IN  IF tie /\ (q % 2) # 0 THEN q - 1 ELSE q

\* Coord.__round__ of the vector <<nx/d, ny/d>>
Coord_round(nx, ny, d) == <<PyRound(nx, d), PyRound(ny, d)>>

(***************************************************************************)
(* Maps.  A map is what PRConfig.load_map and                              *)
(* PaperRaceGrid.load_from_bitmap build from the two map files: one        *)
(* character per grid point, row y+1, column x+1.                          *)
(*   "S" start area   "D" destination area   "." street   "#" block        *)
(*   "s" "w" "m" "x"  points whose colour names an effect section          *)
(*   "?" a point of any other colour: type EFFECT, no effect associated    *)
(***************************************************************************)
MapRun ==
    << <<"S", ".", "D", ".">>,
       <<"S", ".", "D", ".">> >>

MapEffects ==
    << <<"S", "w", ".", "D">>,
       <<"S", "s", "m", "#">> >>

MapNarrow ==
    << <<"S", "?", "x", ".", "D">> >>

MapBend ==
    << <<"S", "x", ".", "#", "#", "#", "#">>,
       <<"#", "#", "#", ".", ".", ".", "#">>,
       <<"#", "#", "#", "#", "#", "#", "D">> >>

MapWiden ==
    << <<"S", "w", "#", "D">>,
       <<".", ".", ".", ".">> >>

MapCorridor ==
    << <<"S", "x", ".", ".", ".", "S", "#", "D">> >>

Maps == {MapRun, MapEffects, MapNarrow, MapBend, MapWiden, MapCorridor}

\* the effect sections of the map file: PREffectConfig objects by colour
EffectConfigs ==
    [s |-> [type |-> "SAND", multiplier |-> 0, priority |-> 1, duration |-> 1],
     w |-> [type |-> "BIGGERTARGETAREA", multiplier |-> 0, priority |-> 1,
            duration |-> 2],
     m |-> [type |-> "MAXSPEED", multiplier |-> 1, priority |-> 1,
            duration |-> 2],
     x |-> [type |-> "MULTISPEED", multiplier |-> 2, priority |-> 1,
            duration |-> 1]]

\* PaperRaceGrid.init_grid: width and height
Width(rows) == Len(rows[1])

Height(rows) == Len(rows)

Pixel(rows, p) == rows[p[2] + 1][p[1] + 1]

Points(rows) == {<<x, y>> : x \in 0 .. (Width(rows) - 1), y \in 0 .. (Height(rows) - 1)}

\* PaperRaceGrid.load_from_bitmap
load_from_bitmap(rows) ==
    [width |-> Width(rows),
     height |-> Height(rows),
     grid |-> [p \in Points(rows) |->
                 CASE Pixel(rows, p) = "#" -> "BLOCK"
                   [] Pixel(rows, p) \in {".", "S", "D"} -> "STREET"
                   [] OTHER -> "EFFECT"],
     startarea |-> {p \in Points(rows) : Pixel(rows, p) = "S"},
     destarea |-> {p \in Points(rows) : Pixel(rows, p) = "D"},
     effects |-> [p \in {q \in Points(rows) : Pixel(rows, q) \in DOMAIN EffectConfigs}
                    |-> EffectConfigs[Pixel(rows, p)]]]

(***************************************************************************)
(* class PaperRaceGrid                                                     *)
(***************************************************************************)
in_range(position) == position \in DOMAIN grid.grid

is_accessable(position) ==
    in_range(position) /\ grid.grid[position] # "BLOCK"

\* dist as the sum of the two differences
dist_manhattan(p1, p2) == AbsInt(p1[1] - p2[1]) + AbsInt(p1[2] - p2[2])

dist(p1, p2) == MaxInt(AbsInt(p1[1] - p2[1]), AbsInt(p1[2] - p2[2]))

\* line without the end point appended after the loop
line_open(p1, p2) ==
    LET distance == dist(p1, p2)
    IN  [i \in 1 .. distance |->
            Coord_round(p1[1] * distance + (i - 1) * (p2[1] - p1[1]),
                        p1[2] * distance + (i - 1) * (p2[2] - p1[2]),
                        distance)]

\* line rounding the step (i/distance)*(p2-p1) before it is added to p1
line_offsets(p1, p2) ==
    LET distance == dist(p1, p2)
    IN  [i \in 1 .. distance |->
            Coord_add(p1, Coord_round((i - 1) * (p2[1] - p1[1]),
                                      (i - 1) * (p2[2] - p1[2]),
                                      distance))]
        \o <<p2>>

\* PaperRaceGrid.line: point i (counted from 0) is round(p1 + (i/distance)*(p2-p1))
line(p1, p2) ==
    LET distance == dist(p1, p2)
    IN  [i \in 1 .. distance |->
            Coord_round(p1[1] * distance + (i - 1) * (p2[1] - p1[1]),
                        p1[2] * distance + (i - 1) * (p2[2] - p1[2]),
                        distance)]
        \o <<p2>>

AllAccessable(l) == \A i \in DOMAIN l : is_accessable(l[i])

is_reachable(start, dest) == AllAccessable(line(start, dest))

Directions ==
    {<<0, 1>>, <<0, -1>>, <<1, 0>>, <<-1, 0>>,
     <<1, -1>>, <<-1, -1>>, <<-1, 1>>, <<1, 1>>}

\* neighbours that gives every point of the grid around p
neighbours_in_range(p) ==
    {q \in {Coord_add(p, d) : d \in Directions} : in_range(q)}

\* PaperRaceGrid.neighbours: the accessable points around p
neighbours(p) ==
    {q \in {Coord_add(p, d) : d \in Directions} : is_accessable(q)}

(***************************************************************************)
(* The PREffect classes.  An effect object is a record; the fields a class *)
(* does not have are 0.  A multiplier is the fraction mul_num / mul_den.   *)
(***************************************************************************)
PREffect(cls, etype, duration, priority, max_speed, mul_num, mul_den) ==
    [cls |-> cls, type |-> etype, duration |-> duration, priority |-> priority,
     max_speed |-> max_speed, mul_num |-> mul_num, mul_den |-> mul_den]

PRMaxSpeedEffect(cls, duration, max_speed, priority) ==
    PREffect(cls, "SpeedEffect", duration, priority, max_speed, 0, 1)

PRMultiSpeedEffect(cls, mul_num, mul_den, priority) ==
    PREffect(cls, "SpeedEffect", 1, priority, 0, mul_num, mul_den)

PRSandEffect == PRMultiSpeedEffect("PRSandEffect", 1, 2, 1)

\* a PRCrashEffect that has no turn left to run
PRCrashEffect_expired ==
    PRMaxSpeedEffect("PRCrashEffect", 0, 0, CrashPriority)

\* a PRCrashEffect with the default duration of PRMaxSpeedEffect
PRCrashEffect_default ==
    PRMaxSpeedEffect("PRCrashEffect", DefaultDuration, 0, CrashPriority)

PRCrashEffect ==
    PRMaxSpeedEffect("PRCrashEffect", CrashDuration, 0, CrashPriority)

PRCollisionEffect(other) ==
    IF other
    THEN PRMaxSpeedEffect("PRCollisionEffect", CollisionDurationOther, 0,
                          CollisionPriority)
    ELSE PRMaxSpeedEffect("PRCollisionEffect", CollisionDurationSelf, 0,
                          CollisionPriority)

PRBiggerTargetAreaEffect(duration, priority) ==
    PREffect("PRBiggerTargetAreaEffect", "TargetAreaEffect", duration, priority,
             0, 0, 1)

\* PREffectConfig.createNewEffectObj
createNewEffectObj(config) ==
    CASE config.type = "SAND" -> PRSandEffect
      [] config.type = "MULTISPEED" ->
            PRMultiSpeedEffect("PRMultiSpeedEffect", config.multiplier, 1,
                               config.priority)
      [] config.type = "MAXSPEED" ->
            PRMaxSpeedEffect("PRMaxSpeedEffect", config.duration,
                             config.multiplier, config.priority)
      [] config.type = "BIGGERTARGETAREA" ->
            PRBiggerTargetAreaEffect(config.duration, config.priority)

\* PRMaxSpeedEffect.apply with the sum of the absolute components as the
\* absolute value of the speed
PRMaxSpeedEffect_apply_manhattan(e, speed) ==
    IF AbsInt(speed[1]) + AbsInt(speed[2]) > e.max_speed
    THEN Coord_round(e.max_speed * speed[1], e.max_speed * speed[2],
                     AbsInt(speed[1]) + AbsInt(speed[2]))
    ELSE speed

\* PRMaxSpeedEffect.apply, after the base class let it run: the new speed
PRMaxSpeedEffect_apply(e, speed) ==
    IF Coord_abs(speed) > e.max_speed
    THEN Coord_round(e.max_speed * speed[1], e.max_speed * speed[2],
                     Coord_abs(speed))
    ELSE speed

\* PRMultiSpeedEffect.apply, after the base class let it run: the new speed
PRMultiSpeedEffect_apply(e, speed) ==
    IF Coord_abs(speed) > 0
    THEN Coord_round(e.mul_num * speed[1], e.mul_num * speed[2], e.mul_den)
    ELSE speed

\* PRBiggerTargetAreaEffect.apply: the new possible_next_positions
PRBiggerTargetAreaEffect_apply(positions) ==
    UNION {neighbours(p) : p \in positions}

\* effect.apply() for the effect e acting on the racer r: PREffect.apply
\* refuses an effect whose duration is 0 and otherwise counts it down; the
\* result is the effect and the racer afterwards
Effect_apply(e, r) ==
    IF e.duration = 0
    THEN [effect |-> e, racer |-> r]
    ELSE [effect |-> [e EXCEPT !.duration = e.duration - 1],
          racer |->
            CASE e.cls \in {"PRMaxSpeedEffect", "PRCrashEffect", "PRCollisionEffect"} ->
                    [r EXCEPT !.speed = PRMaxSpeedEffect_apply(e, r.speed)]
              [] e.cls \in {"PRMultiSpeedEffect", "PRSandEffect"} ->
                    [r EXCEPT !.speed = PRMultiSpeedEffect_apply(e, r.speed)]
              [] e.cls = "PRBiggerTargetAreaEffect" ->
                    [r EXCEPT !.possible_next_positions =
                        PRBiggerTargetAreaEffect_apply(r.possible_next_positions)]]

(***************************************************************************)
(* class PaperRacer.  A racer is a record of its attributes.               *)
(***************************************************************************)
\* the names the class PaperRacer defines
PaperRacerMethods ==
    {"__init__", "__eq__", "_calc_possible_next_positions",
     "_evaluate_position", "add_effect", "_apply_effects", "goto"}

\* AccessablePrefix that stops after the first point of the line
AccessablePrefix_first(l, n) ==
    IF n < Len(l) /\ is_accessable(l[n + 1]) THEN n + 1 ELSE n

\* the number of points at the head of the line l that are accessable
RECURSIVE AccessablePrefix(_, _)
AccessablePrefix(l, n) ==
    IF n < Len(l) /\ is_accessable(l[n + 1])
    THEN AccessablePrefix(l, n + 1)
    ELSE n

\* _calc_possible_next_positions without the test of is_reachable
calc_unfiltered(r) ==
    LET target == Coord_add(r.position, r.speed)
        next_positions == {target} \cup neighbours(target)
        l == line(r.position, target)
        n == AccessablePrefix(l, 0)
    IN  [r EXCEPT !.possible_next_positions = next_positions,
                  !.crash_position =
                      IF next_positions = {} /\ n > 0 THEN l[n] ELSE None]

\* _calc_possible_next_positions with the crash position set whatever the
\* list of possible positions holds
calc_crash_always(r) ==
    LET target == Coord_add(r.position, r.speed)
        next_positions == {target} \cup neighbours(target)
        l == line(r.position, target)
        n == AccessablePrefix(l, 0)
    IN  [r EXCEPT !.possible_next_positions =
                      {p \in next_positions : is_reachable(r.position, p)},
                  !.crash_position = IF n > 0 THEN l[n] ELSE None]

\* PaperRacer._calc_possible_next_positions
_calc_possible_next_positions(r) ==
    LET target == Coord_add(r.position, r.speed)
        next_positions == {target} \cup neighbours(target)
        possible == {p \in next_positions : is_reachable(r.position, p)}
        l == line(r.position, target)
        n == AccessablePrefix(l, 0)
    IN  [r EXCEPT !.possible_next_positions = possible,
                  !.crash_position =
                      IF possible = {} /\ n > 0 THEN l[n] ELSE None]

\* the position at which list.sort (stable) leaves an effect appended last
RECURSIVE SortedIndex(_, _, _)
SortedIndex(effects, priority, i) ==
    IF i <= Len(effects) /\ effects[i].priority <= priority
    THEN SortedIndex(effects, priority, i + 1)
    ELSE i

\* PaperRacer.add_effect
add_effect(r, effect) ==
    LET i == SortedIndex(r.effects, effect.priority, 1)
    IN  [r EXCEPT !.effects =
            SubSeq(r.effects, 1, i - 1) \o <<effect>>
            \o SubSeq(r.effects, i, Len(r.effects))]

\* PaperRacer._evaluate_position
_evaluate_position(r) ==
    IF grid.grid[r.position] = "EFFECT" /\ r.position \in DOMAIN grid.effects
    THEN add_effect(r, createNewEffectObj(grid.effects[r.position]))
    ELSE r

\* the loop of PaperRacer._apply_effects from the i-th effect on
RECURSIVE ApplyLoop(_, _, _)
ApplyLoop(r, effect_type, i) ==
    IF i > Len(r.effects)
    THEN r
    ELSE IF r.effects[i].type = effect_type
         THEN LET a == Effect_apply(r.effects[i], r)
              IN  ApplyLoop([a.racer EXCEPT !.effects[i] = a.effect],
                            effect_type, i + 1)
         ELSE ApplyLoop(r, effect_type, i + 1)

\* _apply_effects that leaves every effect in the list
Remaining_all(effects, effect_type) == effects

\* the effects that _apply_effects leaves in the list: an applied effect
\* whose duration is down to 0 is removed
Remaining(effects, effect_type) ==
    SelectSeq(effects, LAMBDA e : ~(e.type = effect_type /\ e.duration = 0))

\* PaperRacer._apply_effects
Prune(applied, effect_type) ==
    [applied EXCEPT !.effects = Remaining(applied.effects, effect_type)]

_apply_effects(r, effect_type) == Prune(ApplyLoop(r, effect_type, 1), effect_type)

\* PaperRacer.__init__ without the call of _calc_possible_next_positions
PaperRacer_no_calc(racer_id, position) ==
    [id |-> racer_id, position |-> position, speed |-> <<0, 0>>,
     path |-> <<position>>, possible_next_positions |-> {},
     crash_position |-> None, effects |-> <<>>]

\* PaperRacer.__init__
PaperRacer(racer_id, position) ==
    LET r == [id |-> racer_id, position |-> position, speed |-> <<0, 0>>,
              path |-> <<position>>, possible_next_positions |-> {},
              crash_position |-> None, effects |-> <<>>]
    IN  [_calc_possible_next_positions(r) EXCEPT !.crash_position = None]

NoRacer == -1

\* PaperRaceGameState.racer_on_position: the first racer of the dict on
\* the position, NoRacer for Python's None
racer_on_position(rs, position) ==
    LET on == {i \in Racers : rs[i].position = position}
    IN  IF on = {} THEN NoRacer
        ELSE CHOOSE i \in on : \A j \in on : i <= j

\* goto_move with the possible next positions calculated before the
\* effects on the speed are applied
goto_move_calc_first(r, new_position) ==
    LET moved == [r EXCEPT !.position = new_position,
                           !.path = Append(r.path, new_position)]
        evaluated == _evaluate_position(moved)
        calculated == _calc_possible_next_positions(evaluated)
        slowed == _apply_effects(calculated, "SpeedEffect")
    IN  _apply_effects(slowed, "TargetAreaEffect")

\* goto_move with the path extended before the position is assigned
goto_move_stale_path(r, new_position) ==
    LET moved == [r EXCEPT !.position = new_position,
                           !.path = Append(r.path, r.position)]
        evaluated == _evaluate_position(moved)
        slowed == _apply_effects(evaluated, "SpeedEffect")
        calculated == _calc_possible_next_positions(slowed)
    IN  _apply_effects(calculated, "TargetAreaEffect")

\* the end of PaperRacer.goto, from the assignment of the new position on
goto_move(r, new_position) ==
    LET moved == [r EXCEPT !.position = new_position,
                           !.path = Append(r.path, new_position)]
        evaluated == _evaluate_position(moved)
        slowed == _apply_effects(evaluated, "SpeedEffect")
        calculated == _calc_possible_next_positions(slowed)
    IN  _apply_effects(calculated, "TargetAreaEffect")

\* goto_rejected with the speed already reset when the target is refused
goto_rejected_speed_reset(rs, id) ==
    [ret |-> "False", racer |-> [rs EXCEPT ![id].speed = <<0, 0>>]]

\* PaperRacer.goto when new_position is still None: nothing was assigned
goto_rejected(rs, id) == [ret |-> "False", racer |-> rs]

\* PaperRacer.goto of the racer id, in the dict rs of all racers: the value
\* returned, or the exception raised, and the racers afterwards
PaperRacer_goto(rs, id, position) ==
    LET self == rs[id]
    IN  IF self.crash_position # None
        THEN LET crashed == [add_effect([self EXCEPT !.crash_position = None],
                                        PRCrashEffect)
                                EXCEPT !.speed = <<0, 0>>]
             IN  [ret |-> "True",
                  racer |-> [rs EXCEPT ![id] = goto_move(crashed, self.crash_position)]]
        ELSE IF position \in self.possible_next_positions
        THEN LET other_racer == racer_on_position(rs, position)
             IN  IF other_racer # NoRacer /\ other_racer # id
                 THEN LET l == line(rs[other_racer].position, self.position)
                          hit == Effect_apply(PRCollisionEffect(TRUE),
                                              rs[other_racer]).racer
                          recalculated ==
                              [rs EXCEPT ![other_racer] =
                                  _calc_possible_next_positions(hit)]
                          collided ==
                              [add_effect(self, PRCollisionEffect(FALSE))
                                  EXCEPT !.speed = Coord_sub(l[2], self.position)]
                      IN  IF Len(l) < 2
                          THEN [ret |-> "IndexError", racer |-> rs]
                          ELSE IF "calc_possible_next_positions" \notin PaperRacerMethods
                          THEN [ret |-> "AttributeError",
                                racer |-> [rs EXCEPT ![other_racer] = hit]]
                          ELSE [ret |-> "True",
                                racer |-> [recalculated EXCEPT ![id] =
                                              goto_move(collided, l[2])]]
                 ELSE [ret |-> "True",
                       racer |-> [rs EXCEPT ![id] =
                          goto_move([self EXCEPT !.speed =
                                        Coord_sub(position, self.position)],
                                    position)]]
        ELSE goto_rejected(rs, id)

(***************************************************************************)
(* class PaperRaceGameState                                                *)
(***************************************************************************)
\* next_player finishing the game only when the scoreboard has more
\* entries than there are racers
RECURSIVE next_player_strict(_, _, _)
next_player_strict(sb, fin, cur) ==
    IF Cardinality(DOMAIN sb) > NumRacers
    THEN [finished |-> TRUE, current_racer_id |-> cur]
    ELSE LET next == (cur + 1) % NumRacers
         IN  IF next \in DOMAIN sb /\ Cardinality(DOMAIN sb) < NumRacers
             THEN next_player_strict(sb, fin, next)
             ELSE [finished |-> fin, current_racer_id |-> next]

\* next_player without the step over the racers on the scoreboard
next_player_no_skip(sb, fin, cur) ==
    IF Cardinality(DOMAIN sb) >= NumRacers
    THEN [finished |-> TRUE, current_racer_id |-> cur]
    ELSE [finished |-> fin, current_racer_id |-> (cur + 1) % NumRacers]

\* next_player that passes the turn on only when the mover has finished
next_player_keep_turn(sb, fin, cur) ==
    IF Cardinality(DOMAIN sb) >= NumRacers
    THEN [finished |-> TRUE, current_racer_id |-> cur]
    ELSE IF cur \in DOMAIN sb
         THEN [finished |-> fin, current_racer_id |-> (cur + 1) % NumRacers]
         ELSE [finished |-> fin, current_racer_id |-> cur]

\* PaperRaceGameState.next_player: the finished flag and the turn pointer
RECURSIVE next_player(_, _, _)
next_player(sb, fin, cur) ==
    IF Cardinality(DOMAIN sb) >= NumRacers
    THEN [finished |-> TRUE, current_racer_id |-> cur]
    ELSE LET next == (cur + 1) % NumRacers
         IN  IF next \in DOMAIN sb
             THEN next_player(sb, fin, next)
             ELSE [finished |-> fin, current_racer_id |-> next]

\* the exceptions a call of goto can raise; TypeError is that of
\* Coord(None)
Exceptions == {"IndexError", "AttributeError", "TypeError"}

\* the number of moves made so far
RECURSIVE MovesOf(_)
MovesOf(ids) ==
    IF ids = {} THEN 0
    ELSE LET i == CHOOSE j \in ids : TRUE
         IN  (Len(racer[i].path) - 1) + MovesOf(ids \ {i})

Moves == MovesOf(Racers)

\* PaperRaceGameState.load_map, start being the start positions drawn
load_map(rows, start) ==
    /\ grid = load_from_bitmap(rows)
    /\ racer = [i \in Racers |-> PaperRacer(i, start[i])]
    /\ scoreboard = << >>
    /\ finished = FALSE
    /\ current_racer_id = 0

Init ==
    /\ \E rows \in Maps :
         \E start \in [Racers -> load_from_bitmap(rows).startarea] :
            load_map(rows, start)
    /\ call = [id |-> NoRacer, position |-> None, ret |-> "None"]
    /\ probe = None
    /\ agents = << >>
    /\ alive = TRUE
    /\ answer = None

\* record_score counting a move that passes over the destination area
record_score_crossing(sb, id, r) ==
    IF \E i \in DOMAIN line(r.path[Len(r.path) - 1], r.position) :
          line(r.path[Len(r.path) - 1], r.position)[i] \in grid.destarea
    THEN [i \in DOMAIN sb \cup {id} |-> IF i = id THEN Len(r.path) ELSE sb[i]]
    ELSE sb

\* PaperRaceGameState.goto, the scoreboard entry: the racer r with the
\* given id has just moved
record_score(sb, id, r) ==
    IF r.position \in grid.destarea
    THEN [i \in DOMAIN sb \cup {id} |-> IF i = id THEN Len(r.path) ELSE sb[i]]
    ELSE sb

\* PaperRaceGameState.goto, as long as fewer than max_moves moves were made
GotoWithin(position, max_moves) ==
    /\ call.ret \notin Exceptions
    /\ Moves < max_moves
    /\ \E res \in {PaperRacer_goto(racer, current_racer_id, position)} :
         /\ call' = [id |-> current_racer_id, position |-> position,
                     ret |-> res.ret]
         /\ racer' = res.racer
         /\ IF res.ret = "True"
            THEN \E sb \in {record_score(scoreboard, current_racer_id,
                                         res.racer[current_racer_id])} :
                   \E np \in {next_player(sb, finished, current_racer_id)} :
                      /\ scoreboard' = sb
                      /\ finished' = np.finished
                      /\ current_racer_id' = np.current_racer_id
            ELSE UNCHANGED <<scoreboard, finished, current_racer_id>>
    /\ UNCHANGED <<grid, probe, agents, alive, answer>>

\* PaperRaceGameState.goto
Goto(position) == GotoWithin(position, MaxMoves)

Next == \E position \in DOMAIN grid.grid : Goto(position)

Spec == Init /\ [][Next]_vars

(***************************************************************************)
(* The game on a map on which a racer crashes with its second move and has  *)
(* a cell to go to and come back from afterwards, followed until the crash  *)
(* effect has run out.  The second start cell has no cell around it that    *)
(* is not a BLOCK.                                                          *)
(***************************************************************************)
MapCrash ==
    << <<"S", "x", "#", "S", "#", "D">> >>

InitCrash ==
    /\ \E start \in [Racers -> load_from_bitmap(MapCrash).startarea] :
          load_map(MapCrash, start)
    /\ call = [id |-> NoRacer, position |-> None, ret |-> "None"]
    /\ probe = None
    /\ agents = << >>
    /\ alive = TRUE
    /\ answer = None

NextCrash ==
    \E position \in DOMAIN grid.grid : GotoWithin(position, MaxCrashMoves)

SpecCrash == InitCrash /\ [][NextCrash]_vars

(***************************************************************************)
(* PaperRaceGrid.line and is_reachable called on their own, on the grid of *)
(* each map, with any two points of the square -MaxCoord .. MaxCoord: on   *)
(* the grid, off the grid and with negative coordinates.                   *)
(***************************************************************************)
LinePoints == (-MaxCoord .. MaxCoord) \X (-MaxCoord .. MaxCoord)

InitLine ==
    /\ \E rows \in Maps :
         load_map(rows, [i \in Racers |->
                           CHOOSE c \in load_from_bitmap(rows).startarea :
                              \A d \in load_from_bitmap(rows).startarea :
                                 c[2] < d[2] \/ (c[2] = d[2] /\ c[1] <= d[1])])
    /\ call = [id |-> NoRacer, position |-> None, ret |-> "None"]
    /\ probe = None
    /\ agents = << >>
    /\ alive = TRUE
    /\ answer = None

\* grid.line(p1, p2)
Line(p1, p2) ==
    /\ probe = None
    /\ probe' = [p1 |-> p1, p2 |-> p2, line |-> line(p1, p2)]
    /\ UNCHANGED <<grid, racer, scoreboard, finished, current_racer_id, call,
                   agents, alive, answer>>

NextLine == \E p1 \in LinePoints : \E p2 \in LinePoints : Line(p1, p2)

SpecLine == InitLine /\ [][NextLine]_vars

(***************************************************************************)
(* src/game/agent.py.  An agent is a record of its class, the id of its    *)
(* racer and its dict h with max_h.  The value of a call that can raise is *)
(* a record with the field raised: "None", or the name of the exception.   *)
(*                                                                         *)
(* load_from_bitmap puts plain tuples (x, y) in destarea, not Coord        *)
(* objects; + on plain tuples is the concatenation of tuples.              *)
(***************************************************************************)
AgentClasses ==
    {"SimplePRAgent", "SimplePRAgent2", "BetterPRAgent", "AStarPRAgent",
     "DFSPRAgent"}

\* tuple.__add__
tuple_add(p, d) == p \o d

\* the list of directions in PaperRaceGrid.neighbours
DirectionList ==
    << <<0, 1>>, <<0, -1>>, <<1, 0>>, <<-1, 0>>,
       <<1, -1>>, <<-1, -1>>, <<-1, 1>>, <<1, 1>> >>

\* PaperRaceGrid.neighbours of a Coord, as the list it returns
neighbours_list(p) ==
    SelectSeq([i \in 1 .. Len(DirectionList) |-> Coord_add(p, DirectionList[i])],
              is_accessable)

\* PaperRaceGrid.neighbours of a plain tuple, as the list it returns
neighbours_of_tuple(p) ==
    SelectSeq([i \in 1 .. Len(DirectionList) |-> tuple_add(p, DirectionList[i])],
              is_accessable)

\* SectionProxy.getint(key, default)
getint(config, key, default) ==
    IF key \in DOMAIN config THEN config[key] ELSE default

\* PRAgent._build_h: the costs of the step from current to its neighbour n
build_h_costs(h, current, n) ==
    IF grid.grid[current] = "STREET"
    THEN IF grid.grid[n] = "STREET" THEN h[current] + 5 ELSE h[current] + 10
    ELSE IF current \in grid.destarea
    THEN h[current]
    ELSE LET costs ==
                 IF current \in DOMAIN grid.effects
                 THEN CASE grid.effects[current].type = "SAND" -> h[current] + 10
                        [] grid.effects[current].type = "MULTISPEED" -> h[current] + 5
                        [] grid.effects[current].type = "MAXSPEED" -> h[current] + 10
                        [] grid.effects[current].type = "BIGGERTARGETAREA" ->
                              h[current] + 1
                        [] OTHER -> h[current] + 5
                 ELSE h[current] + 5
         IN  IF /\ n \in DOMAIN grid.effects
                /\ grid.effects[n].type \in {"SAND", "MAXSPEED"}
             THEN costs + 10
             ELSE costs

\* PRAgent._build_h: the loop over the neighbours nh of current, from the
\* i-th on; the dict and the queue afterwards
RECURSIVE build_h_neighbours(_, _, _, _, _)
build_h_neighbours(h, queue, current, nh, i) ==
    IF i > Len(nh)
    THEN [h |-> h, queue |-> queue]
    ELSE IF grid.grid[nh[i]] = "BLOCK"
    THEN build_h_neighbours(h, queue, current, nh, i + 1)
    ELSE LET costs == build_h_costs(h, current, nh[i])
         IN  IF nh[i] \notin DOMAIN h \/ h[nh[i]] > costs
             THEN build_h_neighbours(
                     [p \in DOMAIN h \cup {nh[i]} |->
                         IF p = nh[i] THEN costs ELSE h[p]],
                     Append(queue, nh[i]), current, nh, i + 1)
             ELSE build_h_neighbours(h, queue, current, nh, i + 1)

\* PRAgent._build_h: the loop over the queue
RECURSIVE build_h_queue(_, _)
build_h_queue(h, queue) ==
    IF queue = << >>
    THEN h
    ELSE \* the positions in the queue come from destarea and from + on them
         LET step == build_h_neighbours(h, Tail(queue), Head(queue),
                                        neighbours_of_tuple(Head(queue)), 1)
         IN  build_h_queue(step.h, step.queue)

\* PRAgent._build_h, start being the cell of destarea that random.choice drew
_build_h(start) == build_h_queue([p \in {start} |-> 0], <<start>>)

\* max(self.h.values())
MaxValue(h) == CHOOSE v \in {h[p] : p \in DOMAIN h} : \A p \in DOMAIN h : h[p] <= v

\* PRAgent.__init__
PRAgent(cls, racer_id, start) ==
    [cls |-> cls, racer_id |-> racer_id, h |-> _build_h(start),
     max_h |-> MaxValue(_build_h(start))]

\* the value of a call that returned v, and of one that raised e
Returned(v) == [raised |-> "None", value |-> v]

Raised(e) == [raised |-> e, value |-> None]

\* PRAgent.apply_speed_effect, and its copies in SimplePRAgent and
\* AStarPRAgent: round(speed) after the effect of the cell pos
apply_speed_effect(pos, speed) ==
    IF pos \in DOMAIN grid.effects
    THEN IF grid.effects[pos].type \in {"SAND", "MULTISPEED"}
         THEN <<getint(grid.effects[pos], "multiplier", 0) * speed[1],
                getint(grid.effects[pos], "multiplier", 0) * speed[2]>>
         ELSE IF /\ grid.effects[pos].type = "MAXSPEED"
                 /\ Coord_abs(speed) > getint(grid.effects[pos], "maxspeed", 0)
         THEN Coord_round(getint(grid.effects[pos], "maxspeed", 0) * speed[1],
                          getint(grid.effects[pos], "maxspeed", 0) * speed[2],
                          Coord_abs(speed))
         ELSE speed
    ELSE speed

\* the list possible_next_positions of a racer whose list was built by
\* _calc_possible_next_positions and not replaced by a
\* PRBiggerTargetAreaEffect: position + speed, then its neighbours, without
\* those that are not reachable
possible_next_positions_list(r) ==
    SelectSeq(<<Coord_add(r.position, r.speed)>>
                 \o neighbours_list(Coord_add(r.position, r.speed)),
              LAMBDA p : is_reachable(r.position, p))

\* self.h[p] / self.max_h: the exception it raises, "None" when it does not
h_ratio_raises(a, p) ==
    IF p \notin DOMAIN a.h THEN "KeyError"
    ELSE IF a.max_h = 0 THEN "ZeroDivisionError"
    ELSE "None"

\* SimplePRAgent.next_position: the loop "for i in range(1, abs(speed))",
\* from i on; n is abs(speed) when the loop started.  A score is the
\* fraction num / den.  The value is what next_position returns when the
\* loop returns, None when the loop ends, with the score it leaves.
RECURSIVE SimplePRAgent_carry(_, _, _, _, _, _, _, _)
SimplePRAgent_carry(a, new_pos, score, new_pos1, new_pos2, speed, i, n) ==
    IF i >= n \/ ~is_reachable(new_pos1, new_pos2)
    THEN [raised |-> "None", value |-> None, score |-> score]
    ELSE IF h_ratio_raises(a, new_pos2) # "None"
    THEN [raised |-> h_ratio_raises(a, new_pos2), value |-> None, score |-> score]
    ELSE IF new_pos2 \in grid.destarea
    THEN [raised |-> "None", value |-> new_pos, score |-> score]
    ELSE SimplePRAgent_carry(
            a, new_pos,
            [num |-> score.num * a.h[new_pos2], den |-> score.den * a.max_h],
            new_pos2,
            Coord_add(new_pos2, apply_speed_effect(new_pos2, speed)),
            apply_speed_effect(new_pos2, speed), i + 1, n)

\* SimplePRAgent.next_position: the body of the loop over the list for the
\* position new_pos, as SimplePRAgent_carry gives it
SimplePRAgent_score(a, rs, new_pos) ==
    LET pos == rs[a.racer_id].position
        speed == IF racer_on_position(rs, new_pos) # NoRacer
                 THEN IF Coord_abs(Coord_sub(new_pos, pos)) > 0
                      THEN Coord_round(Coord_sub(new_pos, pos)[1],
                                       Coord_sub(new_pos, pos)[2],
                                       Coord_abs(Coord_sub(new_pos, pos)))
                      ELSE Coord_sub(new_pos, pos)
                 ELSE apply_speed_effect(new_pos, Coord_sub(new_pos, pos))
    IN  IF h_ratio_raises(a, new_pos) # "None"
        THEN [raised |-> h_ratio_raises(a, new_pos), value |-> None,
              score |-> None]
        ELSE SimplePRAgent_carry(a, new_pos,
                                 [num |-> a.h[new_pos], den |-> a.max_h],
                                 new_pos, Coord_add(pos, speed), speed, 1,
                                 Coord_abs(speed))

\* score < best_score for two fractions; best_score is None for float("inf")
ScoreLess(score, best_score) ==
    \/ best_score = None
    \/ score.num * best_score.den < best_score.num * score.den

\* SimplePRAgent.next_position: the loop over the list, from the i-th
\* position on
RECURSIVE SimplePRAgent_loop(_, _, _, _, _, _)
SimplePRAgent_loop(a, rs, list, i, best_score, best_position) ==
    IF i > Len(list)
    THEN Returned(best_position)
    ELSE IF list[i] \in grid.destarea
    THEN Returned(list[i])
    ELSE LET s == SimplePRAgent_score(a, rs, list[i])
         IN  IF s.raised # "None" THEN Raised(s.raised)
             ELSE IF s.value # None THEN Returned(s.value)
             ELSE IF ScoreLess(s.score, best_score)
             THEN SimplePRAgent_loop(a, rs, list, i + 1, s.score, list[i])
             ELSE SimplePRAgent_loop(a, rs, list, i + 1, best_score,
                                     best_position)

\* SimplePRAgent.next_position
SimplePRAgent_next_position(a, rs) ==
    IF rs[a.racer_id].possible_next_positions = {}
    THEN Returned(rs[a.racer_id].crash_position)
    ELSE SimplePRAgent_loop(a, rs, possible_next_positions_list(rs[a.racer_id]),
                            1, None, None)

\* BetterPRAgent._score and the loop over [pos] + neighbours(pos) in it, from
\* the i-th position of the list on; best_score is None for float("inf")
\* and <<n>> for the number n.
\* The speed that _score computes is used nowhere and is left out.
RECURSIVE BetterPRAgent_score(_, _, _)
RECURSIVE BetterPRAgent_score_loop(_, _, _, _, _, _)
BetterPRAgent_score_loop(a, pos, depth, list, i, best_score) ==
    IF i > Len(list)
    THEN Returned(IF best_score = None THEN None ELSE best_score[1])
    ELSE IF ~is_reachable(pos, list[i])
    THEN IF pos \notin DOMAIN a.h
         THEN Raised("KeyError")
         ELSE BetterPRAgent_score_loop(
                 a, pos, depth, list, i + 1,
                 IF best_score = None \/ a.h[pos] * 2 < best_score[1]
                 THEN <<a.h[pos] * 2>> ELSE best_score)
    ELSE Only({(
            IF s.raised # "None" THEN Raised(s.raised)
            ELSE IF pos \notin DOMAIN a.h THEN Raised("KeyError")
            ELSE BetterPRAgent_score_loop(
                    a, pos, depth, list, i + 1,
                    IF best_score = None \/ s.value + a.h[pos] < best_score[1]
                    THEN <<s.value + a.h[pos]>> ELSE best_score)
        ) : s \in {BetterPRAgent_score(a, list[i], depth - 1)}})

BetterPRAgent_score(a, pos, depth) ==
    IF depth = 0
    THEN IF pos \in DOMAIN a.h THEN Returned(a.h[pos]) ELSE Raised("KeyError")
    ELSE BetterPRAgent_score_loop(a, pos, depth,
                                  <<pos>> \o neighbours_list(pos), 1, None)

\* BetterPRAgent.next_position: the loop over the list, from the i-th
\* position on; best_score as in _score
RECURSIVE BetterPRAgent_loop(_, _, _, _, _)
BetterPRAgent_loop(a, list, i, best_score, best_position) ==
    IF i > Len(list)
    THEN Returned(best_position)
    ELSE Only({(
            IF s.raised # "None" THEN Raised(s.raised)
            ELSE IF best_score = None \/ s.value < best_score[1]
            THEN BetterPRAgent_loop(a, list, i + 1, <<s.value>>, list[i])
            ELSE BetterPRAgent_loop(a, list, i + 1, best_score, best_position)
        ) : s \in {BetterPRAgent_score(a, list[i], 3)}})

\* BetterPRAgent.next_position
BetterPRAgent_next_position(a, rs) ==
    IF rs[a.racer_id].possible_next_positions = {}
    THEN Returned(rs[a.racer_id].crash_position)
    ELSE BetterPRAgent_loop(a, possible_next_positions_list(rs[a.racer_id]),
                            1, None, None)

\* sorted(list, key=lambda p: self.h[p]): the position at which the stable
\* sort puts p in the sorted list
RECURSIVE sorted_index(_, _, _, _)
sorted_index(h, sorted, p, i) ==
    IF i <= Len(sorted) /\ h[sorted[i]] <= h[p]
    THEN sorted_index(h, sorted, p, i + 1)
    ELSE i

\* sorted(list, key=lambda p: self.h[p]) of a list whose positions all
\* have a value in h: the first n positions of the list, sorted
RECURSIVE sorted_by_h(_, _, _)
sorted_by_h(h, list, n) ==
    IF n = 0
    THEN << >>
    ELSE Only({(
         Only({(
            SubSeq(s, 1, i - 1) \o <<list[n]>> \o SubSeq(s, i, Len(s))
        ) : i \in {sorted_index(h, s, list[n], 1)}})
        ) : s \in {sorted_by_h(h, list, n - 1)}})

\* sorted(list, key=lambda p: self.h[p])
sorted(h, list) ==
    IF \E i \in DOMAIN list : list[i] \notin DOMAIN h
    THEN Raised("KeyError")
    ELSE Returned(sorted_by_h(h, list, Len(list)))

\* SimplePRAgent2.neighbours
SimplePRAgent2_neighbours(a, pos) ==
    Only({(
       IF nh.raised # "None" THEN nh
       ELSE IF nh.value = << >> THEN Returned(<< >>)
       ELSE Returned(<<nh.value[1], nh.value[(Len(nh.value) \div 2) + 1],
                       nh.value[Len(nh.value)]>>)
        ) : nh \in {sorted(a.h, neighbours_list(pos))}})

\* a < b for two scores (h, -depth) of SimplePRAgent2, compared as tuples;
\* b is None for (float("inf"), 0)
TupleLess(a, b) ==
    \/ b = None
    \/ a[1] < b[1]
    \/ (a[1] = b[1] /\ a[2] < b[2])

\* SimplePRAgent2._score and the loop over the neighbours nh in it, from the
\* i-th on
RECURSIVE SimplePRAgent2_score(_, _, _, _, _)
RECURSIVE SimplePRAgent2_score_loop(_, _, _, _, _, _, _)
SimplePRAgent2_score_loop(a, rs, pos, depth, nh, i, best_score) ==
    IF i > Len(nh)
    THEN Returned(best_score)
    ELSE IF ~is_reachable(pos, nh[i])
    THEN SimplePRAgent2_score_loop(a, rs, pos, depth, nh, i + 1, best_score)
    ELSE Only({(
            IF s.raised # "None" THEN s
            ELSE SimplePRAgent2_score_loop(
                    a, rs, pos, depth, nh, i + 1,
                    IF TupleLess(best_score, s.value)
                    THEN best_score ELSE s.value)
        ) : s \in {SimplePRAgent2_score(a, rs, nh[i], pos, depth - 1)}})

SimplePRAgent2_score(a, rs, pos, old_pos, depth) ==
    IF pos \in grid.destarea /\ pos # rs[a.racer_id].position
    THEN Returned(<<0, -depth>>)
    ELSE IF pos \notin DOMAIN a.h /\ depth = 0
    THEN Raised("KeyError")
    ELSE IF depth = 0
    THEN Returned(<<a.h[pos], -depth>>)
    ELSE IF \E i \in DOMAIN rs[a.racer_id].path : rs[a.racer_id].path[i] = pos
    THEN IF pos \in DOMAIN a.h
         THEN Returned(<<a.h[pos] + 1, -depth>>)
         ELSE Raised("KeyError")
    ELSE Only({(
            IF nh.raised # "None" THEN nh
            ELSE IF pos \notin DOMAIN a.h THEN Raised("KeyError")
            ELSE IF nh.value = << >> THEN Returned(<<a.h[pos], -depth>>)
            ELSE SimplePRAgent2_score_loop(a, rs, pos, depth, nh.value, 1,
                                           <<a.h[pos], -depth>>)
        ) : nh \in {SimplePRAgent2_neighbours( a, Coord_add(pos, apply_speed_effect( pos, Coord_sub(pos, old_pos))))}})

\* SimplePRAgent2.next_position: the loop over the list, from the i-th
\* position on
RECURSIVE SimplePRAgent2_loop(_, _, _, _, _, _)
SimplePRAgent2_loop(a, rs, list, i, best_score, best_position) ==
    IF i > Len(list)
    THEN Returned(best_position)
    ELSE IF list[i] \in grid.destarea
    THEN Returned(list[i])
    ELSE IF list[i] = rs[a.racer_id].position
    THEN SimplePRAgent2_loop(a, rs, list, i + 1, best_score, best_position)
    ELSE Only({(
         Only({(
         Only({(
            IF s.raised # "None" THEN s
            ELSE IF TupleLess(s.value, best_score)
            THEN SimplePRAgent2_loop(a, rs, list, i + 1, s.value, new_pos)
            ELSE SimplePRAgent2_loop(a, rs, list, i + 1, best_score,
                                     best_position)
        ) : s \in {SimplePRAgent2_score(a, rs, new_pos, old_pos, 5)}})
        ) : old_pos \in {IF new_pos = list[i] THEN rs[a.racer_id].position ELSE new_pos}})
        ) : new_pos \in {IF /\ racer_on_position(rs, list[i]) # NoRacer /\ racer_on_position(rs, list[i]) # a.racer_id THEN line(list[i], rs[a.racer_id].position)[2] ELSE list[i]}})

\* SimplePRAgent2.next_position
SimplePRAgent2_next_position(a, rs) ==
    IF rs[a.racer_id].possible_next_positions = {}
    THEN Returned(rs[a.racer_id].crash_position)
    ELSE SimplePRAgent2_loop(a, rs,
                             possible_next_positions_list(rs[a.racer_id]),
                             1, None, None)

\* a <= b for two tuples of integers, compared as Python compares tuples
RECURSIVE TupleLE(_, _, _)
TupleLE(a, b, i) ==
    IF i > Len(a) THEN TRUE
    ELSE IF i > Len(b) THEN FALSE
    ELSE IF a[i] # b[i] THEN a[i] < b[i]
    ELSE TupleLE(a, b, i + 1)

\* an entry (f, pos, speed, d) of the openlist as one tuple of integers
Flat(e) == <<e[1]>> \o e[2] \o e[3] \o <<e[4]>>

\* heapq.heappop(openlist): the smallest entry of the openlist
heappop(openlist) ==
    CHOOSE e \in openlist : \A o \in openlist : TupleLE(Flat(e), Flat(o), 1)

\* AStarPRAgent.a_star_search, the loop over the candidates from the i-th
\* on.  st holds the local variables: openlist, costs, came_from with the
\* order in which its keys were inserted (keys), and speed.
RECURSIVE a_star_seed(_, _, _, _, _)
a_star_seed(a, position, list, i, st) ==
    IF i > Len(list)
    THEN [raised |-> "None", st |-> st]
    ELSE IF list[i] \notin DOMAIN a.h
    THEN [raised |-> "KeyError", st |-> st]
    ELSE a_star_seed(
            a, position, list, i + 1,
            [openlist |-> st.openlist \cup
                            {<<a.h[list[i]], list[i],
                               Coord_sub(list[i], position), st.depth>>},
             costs |-> [p \in DOMAIN st.costs \cup {list[i]} |->
                           IF p = list[i] THEN 1 ELSE st.costs[p]],
             came_from |-> [p \in DOMAIN st.came_from \cup {list[i]} |->
                               IF p = list[i] THEN position
                               ELSE st.came_from[p]],
             keys |-> IF list[i] \in DOMAIN st.came_from THEN st.keys
                      ELSE Append(st.keys, list[i]),
             speed |-> Coord_sub(list[i], position),
             depth |-> st.depth])

\* AStarPRAgent.a_star_search, "expand node": the loop over next_positions
\* from the j-th on, for the popped node c_pos with depth d
RECURSIVE a_star_expand(_, _, _, _, _, _)
a_star_expand(a, c_pos, d, next_positions, j, st) ==
    IF j > Len(next_positions)
    THEN [raised |-> "None", st |-> st]
    ELSE Only({(
         IF c_pos \notin DOMAIN st.costs
         THEN [raised |-> "KeyError", st |-> st]
         ELSE IF n_pos \in DOMAIN st.costs /\ st.costs[n_pos] <= st.costs[c_pos] + 1
         THEN a_star_expand(a, c_pos, d, next_positions, j + 1, st)
         ELSE IF n_pos \notin DOMAIN a.h
         THEN [raised |-> "KeyError", st |-> st]
         ELSE a_star_expand(
                 a, c_pos, d, next_positions, j + 1,
                 [openlist |-> st.openlist \cup
                                 {<<a.h[n_pos] + st.costs[c_pos] + 1, n_pos,
                                    Coord_sub(n_pos, c_pos), d - 1>>},
                  costs |-> [p \in DOMAIN st.costs \cup {n_pos} |->
                                IF p = n_pos THEN st.costs[c_pos] + 1
                                ELSE st.costs[p]],
                  came_from |-> [p \in DOMAIN st.came_from \cup {n_pos} |->
                                    IF p = n_pos THEN c_pos
                                    ELSE st.came_from[p]],
                  keys |-> IF n_pos \in DOMAIN st.came_from THEN st.keys
                           ELSE Append(st.keys, n_pos),
                  speed |-> st.speed,
                  depth |-> st.depth])
        ) : n_pos \in {next_positions[j]}})

\* AStarPRAgent.a_star_search, the loop "while openlist".  The speed that is
\* put through apply_speed_effect is the local variable speed, which the
\* loop over the candidates and the earlier iterations left behind, not the
\* c_speed of the popped entry; closedlist is only written to.  pops counts
\* the entries popped so far.
RECURSIVE a_star_while(_, _, _)
a_star_while(a, st, pops) ==
    IF st.openlist = {}
    THEN [raised |-> "None", st |-> st, pops |-> pops]
    ELSE Only({(
         Only({(
         Only({(
            IF res.raised # "None"
            THEN [raised |-> res.raised, st |-> res.st, pops |-> pops + 1]
            ELSE a_star_while(a, res.st, pops + 1)
        ) : res \in {a_star_expand( a, e[2], e[4], (IF is_reachable(e[2], Coord_add(e[2], speed)) THEN <<Coord_add(e[2], speed)>> ELSE << >>) \o neighbours_list(Coord_add(e[2], speed)), 1, [st EXCEPT !.openlist = st.openlist \ {e}, !.speed = speed])}})
        ) : speed \in {apply_speed_effect(e[2], st.speed)}})
        ) : e \in {heappop(st.openlist)}})

\* AStarPRAgent.a_star_search(depth): the target node it returns is always
\* None
a_star_search(a, r, depth) ==
    Only({(
       IF seeded.raised # "None"
       THEN [raised |-> seeded.raised, st |-> seeded.st, pops |-> 0]
       ELSE a_star_while(a, seeded.st, 0)
        ) : seeded \in {a_star_seed(a, r.position, possible_next_positions_list(r), 1, [openlist |-> {}, costs |-> << >>, came_from |-> << >>, keys |-> << >>, speed |-> None, depth |-> depth])}})

\* AStarPRAgent.lowest_value_node: min(came_from, key=lambda p: self.h[p]),
\* the first of the keys with the lowest value
lowest_value_node(a, keys) ==
    IF \E i \in DOMAIN keys : keys[i] \notin DOMAIN a.h
    THEN Raised("KeyError")
    ELSE Returned(keys[CHOOSE i \in DOMAIN keys :
                          /\ \A j \in DOMAIN keys : a.h[keys[i]] <= a.h[keys[j]]
                          /\ \A j \in 1 .. i - 1 : a.h[keys[j]] > a.h[keys[i]]])

\* AStarPRAgent.build_path: the loop "while node != start"
RECURSIVE build_path_loop(_, _, _, _)
build_path_loop(came_from, start, node, path) ==
    IF node = start
    THEN Returned(Append(path, start))
    ELSE IF node \notin DOMAIN came_from
    THEN Raised("KeyError")
    ELSE build_path_loop(came_from, start, came_from[node], Append(path, node))

\* AStarPRAgent.build_path
build_path(came_from, start, end) ==
    IF start = end
    THEN Returned(<<start>>)
    ELSE IF \/ \A p \in DOMAIN came_from : came_from[p] # start
            \/ end \notin DOMAIN came_from
    THEN Returned(<< >>)
    ELSE build_path_loop(came_from, start, end, << >>)

\* AStarPRAgent.next_position
AStarPRAgent_next_position(a, rs) ==
    Only({(
       IF search.raised # "None"
       THEN Raised(search.raised)
       ELSE IF search.st.keys = << >>
       THEN Returned(rs[a.racer_id].crash_position)
       ELSE Only({(
            IF target_node.raised # "None"
            THEN target_node
            ELSE Only({(
                 IF path.raised # "None" THEN path
                 ELSE IF Len(path.value) < 2 THEN Raised("IndexError")
                 ELSE Returned(path.value[Len(path.value) - 1])
        ) : path \in {build_path(search.st.came_from, rs[a.racer_id].position, target_node.value)}})
        ) : target_node \in {lowest_value_node(a, search.st.keys)}})
        ) : search \in {a_star_search(a, rs[a.racer_id], AStarDepth)}})

\* PaperRaceGameState.goto on the game state gs, which is the game itself or
\* a deepcopy of it: the value returned or the exception raised, and the
\* game state it leaves.  Coord(position) raises TypeError for None.
PaperRaceGameState_goto(gs, position) ==
    IF position = None
    THEN [ret |-> "TypeError", gs |-> gs]
    ELSE Only({(
         IF res.ret # "True"
         THEN [ret |-> res.ret, gs |-> [gs EXCEPT !.racer = res.racer]]
         ELSE Only({(
              Only({(
                 [ret |-> "True",
                  gs |-> [racer |-> res.racer,
                          scoreboard |-> sb,
                          finished |-> np.finished,
                          current_racer_id |-> np.current_racer_id]]
        ) : np \in {next_player(sb, gs.finished, gs.current_racer_id)}})
        ) : sb \in {record_score(gs.scoreboard, gs.current_racer_id, res.racer[gs.current_racer_id])}})
        ) : res \in {PaperRacer_goto(gs.racer, gs.current_racer_id, position)}})

\* The game state objects that a call of DFSPRAgent.next_position works on
\* are a heap: the list of their states.  heap[1] is self.gamestate, the
\* game itself; a reference is an index.  A call gives back the heap
\* without the objects it made.

\* copy.deepcopy as an alias: no new object
deepcopy_alias(heap, ref) == [heap |-> heap, ref |-> ref]

\* copy.deepcopy(gamestate): a new object with the state of the object ref
deepcopy(heap, ref) == [heap |-> Append(heap, heap[ref]), ref |-> Len(heap) + 1]

\* gamestate.goto(position) on the object ref: what it returns or raises,
\* and the heap afterwards
heap_goto(heap, ref, position) ==
    Only({(
        [ret |-> res.ret, heap |-> [heap EXCEPT ![ref] = res.gs]]
        ) : res \in {PaperRaceGameState_goto(heap[ref], position)}})

\* DFSPRAgent._score_position, the loop "while gamestate.current_racer_id !=
\* self.racer_id" on the object ref: the heaps that the random moves of the
\* other racers can leave, each with the exception that ended the loop
RECURSIVE DFSPRAgent_others(_, _, _)
DFSPRAgent_others(a, heap, ref) ==
    IF heap[ref].current_racer_id = a.racer_id
    THEN {[raised |-> "None", heap |-> heap]}
    ELSE UNION {
            IF res.ret \in Exceptions
            THEN {[raised |-> res.ret, heap |-> res.heap]}
            ELSE DFSPRAgent_others(a, res.heap, ref) :
            res \in {heap_goto(heap, ref, random_pos) :
                       random_pos \in
                          IF heap[ref].racer[heap[ref].current_racer_id]
                                .possible_next_positions # {}
                          THEN heap[ref].racer[heap[ref].current_racer_id]
                                  .possible_next_positions
                          ELSE {heap[ref].racer[heap[ref].current_racer_id]
                                   .crash_position}}}

\* DFSPRAgent._score_position on the object ref and the loop over
\* next_positions in it, from the i-th on: the set of the values it can
\* return and of the exceptions it can raise, each with the heap it leaves;
\* max_score is None for float("inf")
RECURSIVE DFSPRAgent_score_position(_, _, _, _, _)
RECURSIVE DFSPRAgent_score_loop(_, _, _, _, _, _, _, _)
DFSPRAgent_score_loop(a, heap, ref, next_positions, i, best_score, max_score, depth) ==
    IF i > Len(next_positions)
    THEN {[raised |-> "None", value |-> best_score, heap |-> heap]}
    ELSE UNION {
            IF moved.ret \in Exceptions
            THEN {[raised |-> moved.ret, value |-> None,
                   heap |-> SubSeq(moved.heap, 1, Len(heap))]}
            ELSE UNION {
                    IF score.raised # "None"
                    THEN {[score EXCEPT !.heap = SubSeq(score.heap, 1, Len(heap))]}
                    ELSE IF score.value >= best_score
                    THEN DFSPRAgent_score_loop(
                            a, SubSeq(score.heap, 1, Len(heap)), ref,
                            next_positions, i + 1, best_score, max_score, depth)
                    ELSE IF max_score # None /\ score.value > max_score[1]
                    THEN {[raised |-> "None", value |-> max_score[1],
                           heap |-> SubSeq(score.heap, 1, Len(heap))]}
                    ELSE DFSPRAgent_score_loop(
                            a, SubSeq(score.heap, 1, Len(heap)), ref,
                            next_positions, i + 1, score.value, max_score,
                            depth) :
                    score \in DFSPRAgent_score_position(
                                 a, moved.heap, deepcopy(heap, ref).ref,
                                 <<best_score>>, depth - 1)} :
            moved \in {heap_goto(deepcopy(heap, ref).heap,
                                 deepcopy(heap, ref).ref, next_positions[i])}}

DFSPRAgent_score_position(a, heap, gamestate, max_score, depth) ==
    IF heap[gamestate].racer[a.racer_id].position \in grid.destarea
    THEN {[raised |-> "None", value |-> 0, heap |-> heap]}
    ELSE IF depth = 0
    THEN IF heap[gamestate].racer[a.racer_id].position \in DOMAIN a.h
         THEN {[raised |-> "None",
                value |-> a.h[heap[gamestate].racer[a.racer_id].position],
                heap |-> heap]}
         ELSE {[raised |-> "KeyError", value |-> None, heap |-> heap]}
    ELSE UNION {
            IF others.raised # "None"
            THEN {[raised |-> others.raised, value |-> None,
                   heap |-> others.heap]}
            ELSE UNION {
                    IF next_positions.raised # "None"
                    THEN {[raised |-> next_positions.raised, value |-> None,
                           heap |-> others.heap]}
                    ELSE DFSPRAgent_score_loop(
                            a, others.heap, gamestate, next_positions.value,
                            1, a.max_h + 10, max_score, depth) :
                    next_positions \in
                       {sorted(a.h,
                               IF others.heap[gamestate].racer[a.racer_id]
                                     .possible_next_positions = {}
                               THEN <<others.heap[gamestate].racer[a.racer_id]
                                         .crash_position>>
                               ELSE possible_next_positions_list(
                                       others.heap[gamestate].racer[a.racer_id]))}} :
            others \in DFSPRAgent_others(a, heap, gamestate)}

\* DFSPRAgent.next_position, the loop over the sorted candidates from the
\* i-th on: the set of the values it can return and of the exceptions it
\* can raise, each with the heap it leaves
RECURSIVE DFSPRAgent_loop(_, _, _, _, _, _)
DFSPRAgent_loop(a, heap, next_positions, i, best_score, best_pos) ==
    IF i > Len(next_positions)
    THEN {[raised |-> "None", value |-> best_pos, heap |-> heap]}
    ELSE UNION {
            IF moved.ret \in Exceptions
            THEN {[raised |-> moved.ret, value |-> None,
                   heap |-> SubSeq(moved.heap, 1, Len(heap))]}
            ELSE UNION {
                    IF score.raised # "None"
                    THEN {[score EXCEPT !.heap = SubSeq(score.heap, 1, Len(heap))]}
                    ELSE IF score.value < best_score
                    THEN DFSPRAgent_loop(a, SubSeq(score.heap, 1, Len(heap)),
                                         next_positions, i + 1, score.value,
                                         next_positions[i])
                    ELSE DFSPRAgent_loop(a, SubSeq(score.heap, 1, Len(heap)),
                                         next_positions, i + 1, best_score,
                                         best_pos) :
                    score \in DFSPRAgent_score_position(
                                 a, moved.heap, deepcopy(heap, 1).ref, None, 1)} :
            moved \in {heap_goto(deepcopy(heap, 1).heap, deepcopy(heap, 1).ref,
                                 next_positions[i])}}

\* DFSPRAgent.next_position on the game state gs: the set of the values it
\* can return and of the exceptions it can raise, each with the game state
\* that the call leaves in self.gamestate.  The list of the candidates is
\* sorted before the first deepcopy.
DFSPRAgent_next_position(a, gs) ==
    UNION {
       IF next_positions.raised # "None"
       THEN {[raised |-> next_positions.raised, value |-> None,
              gamestate |-> gs]}
       ELSE IF next_positions.value = << >>
       THEN {[raised |-> "None", value |-> gs.racer[a.racer_id].crash_position,
              gamestate |-> gs]}
       ELSE {[raised |-> out.raised, value |-> out.value,
              gamestate |-> out.heap[1]] :
               out \in DFSPRAgent_loop(a, <<gs>>, next_positions.value, 1,
                                       a.max_h + 10, None)} :
       next_positions \in
          {sorted(a.h, possible_next_positions_list(gs.racer[a.racer_id]))}}

\* the outcome out of a next_position that calls nothing that changes the
\* game state gs
reads_only(out, gs) ==
    [raised |-> out.raised, value |-> out.value, gamestate |-> gs]

\* next_position of the agent a on the game state gs: the set of the values
\* it can return and of the exceptions it can raise, each with the game
\* state that the call leaves.  Only DFSPRAgent draws random numbers and
\* calls goto.
next_position(a, gs) ==
    CASE a.cls = "SimplePRAgent" ->
            {reads_only(SimplePRAgent_next_position(a, gs.racer), gs)}
      [] a.cls = "SimplePRAgent2" ->
            {reads_only(SimplePRAgent2_next_position(a, gs.racer), gs)}
      [] a.cls = "BetterPRAgent" ->
            {reads_only(BetterPRAgent_next_position(a, gs.racer), gs)}
      [] a.cls = "AStarPRAgent" ->
            {reads_only(AStarPRAgent_next_position(a, gs.racer), gs)}
      [] a.cls = "DFSPRAgent" -> DFSPRAgent_next_position(a, gs)

(***************************************************************************)
(* class Main of src/game/pygletgui.py: the game with agents.  A           *)
(* racer without an agent is moved by mouse clicks, a racer with an agent  *)
(* by the loop of run.  The maps are those without a BIGGERTARGETAREA      *)
(* cell, so that possible_next_positions is the list that                  *)
(* _calc_possible_next_positions built.  An exception that leaves run      *)
(* ends the program.                                                       *)
(***************************************************************************)
AgentMaps == {MapRun, MapNarrow, MapBend}

\* the game state as one value, as copy.deepcopy takes it
GameState ==
    [racer |-> racer, scoreboard |-> scoreboard, finished |-> finished,
     current_racer_id |-> current_racer_id]

\* no exception has left the program so far
Running ==
    /\ alive
    /\ call.ret \notin Exceptions
    /\ IF answer = None THEN TRUE ELSE answer.raised = "None"

InitAgents ==
    /\ \E rows \in AgentMaps :
         \E start \in [Racers -> load_from_bitmap(rows).startarea] :
            load_map(rows, start)
    /\ call = [id |-> NoRacer, position |-> None, ret |-> "None"]
    /\ probe = None
    /\ agents = << >>
    /\ alive = TRUE
    /\ answer = None

\* Main.add_agent(cls(gamestate, racer_id), racer_id), seed being
\* the destination cell that random.choice draws in _build_h
add_agent(cls, racer_id, seed) ==
    /\ Running
    /\ racer_id \notin DOMAIN agents
    /\ agents' = [i \in DOMAIN agents \cup {racer_id} |->
                     IF i = racer_id THEN PRAgent(cls, racer_id, seed)
                     ELSE agents[i]]
    /\ UNCHANGED <<grid, racer, scoreboard, finished, current_racer_id, call,
                   probe, alive, answer>>

\* the game state and the record of the call after gamestate.goto(position)
\* gave res
commit(position, res) ==
    /\ call' = [id |-> current_racer_id, position |-> position, ret |-> res.ret]
    /\ racer' = res.gs.racer
    /\ scoreboard' = res.gs.scoreboard
    /\ finished' = res.gs.finished
    /\ current_racer_id' = res.gs.current_racer_id
    /\ alive' = IF res.ret = "True" /\ res.gs.finished THEN FALSE ELSE alive

\* Main.on_mouse_release with the mouse on position
on_mouse_release(position) ==
    /\ Running
    /\ Moves < MaxDrive
    /\ current_racer_id \notin DOMAIN agents
    /\ \/ position \in racer[current_racer_id].possible_next_positions
       \/ position = racer[current_racer_id].crash_position
    /\ \E res \in {PaperRaceGameState_goto(GameState, position)} :
          commit(position, res)
    /\ UNCHANGED <<grid, probe, agents, answer>>

\* Main.run, one turn of the loop in which the current racer
\* has an agent
run ==
    /\ Running
    /\ Moves < MaxDrive
    /\ current_racer_id \in DOMAIN agents
    /\ \E pos \in next_position(agents[current_racer_id], GameState) :
          IF pos.raised # "None"
          THEN /\ answer' = [racer_id |-> current_racer_id, returned |-> FALSE,
                             value |-> None, raised |-> pos.raised,
                             gamestate |-> pos.gamestate]
               /\ racer' = pos.gamestate.racer
               /\ scoreboard' = pos.gamestate.scoreboard
               /\ finished' = pos.gamestate.finished
               /\ current_racer_id' = pos.gamestate.current_racer_id
               /\ UNCHANGED <<call, alive>>
          ELSE \E res \in {PaperRaceGameState_goto(pos.gamestate, pos.value)} :
                  /\ commit(pos.value, res)
                  /\ answer' = [racer_id |-> current_racer_id,
                                returned |-> TRUE, value |-> pos.value,
                                raised |-> IF res.ret = "False" THEN "NameError"
                                           ELSE IF res.ret = "True" THEN "None"
                                           ELSE res.ret,
                                gamestate |-> pos.gamestate]
    /\ UNCHANGED <<grid, probe, agents>>

NextAgents ==
    \/ \E cls \in AgentClasses : \E racer_id \in Racers :
          \E seed \in grid.destarea : add_agent(cls, racer_id, seed)
    \/ \E position \in DOMAIN grid.grid : on_mouse_release(position)
    \/ run

SpecAgents == InitAgents /\ [][NextAgents]_vars

(***************************************************************************)
(* The effects on the speed applied on their own, after load_map: apply of  *)
(* a PRMaxSpeedEffect on a racer with any speed and any limit, and the end  *)
(* of PaperRacer.goto for a racer that moves with any speed onto a cell of  *)
(* the map with the sand effect.                                            *)
(***************************************************************************)
Speeds == (-MaxSpeed .. MaxSpeed) \X (-MaxSpeed .. MaxSpeed)

SandCells ==
    {p \in DOMAIN grid.effects : grid.effects[p].type = "SAND"}

\* PRMaxSpeedEffect(racer, max_speed=max_speed).apply() with racer.speed
\* set to speed
Clamp(max_speed, speed) ==
    /\ probe = None
    /\ probe' = [op |-> "apply", speed |-> speed, max_speed |-> max_speed,
                 racer |-> Effect_apply(
                    PRMaxSpeedEffect("PRMaxSpeedEffect", DefaultDuration,
                                     max_speed, 1),
                    [racer[0] EXCEPT !.speed = speed]).racer]
    /\ UNCHANGED <<grid, racer, scoreboard, finished, current_racer_id, call,
                   agents, alive, answer>>

\* PaperRacer.goto from the assignment of the speed on, for racer 0 moving
\* with the speed onto the sand cell position
Land(position, speed) ==
    /\ probe = None
    /\ probe' = [op |-> "goto", speed |-> speed, max_speed |-> 0,
                 racer |-> goto_move([racer[0] EXCEPT !.speed = speed],
                                     position)]
    /\ UNCHANGED <<grid, racer, scoreboard, finished, current_racer_id, call,
                   agents, alive, answer>>

SpeedCells ==
    {p \in DOMAIN grid.effects :
        grid.effects[p].type \in {"SAND", "MULTISPEED", "MAXSPEED"}}

\* apply_speed_effect(position, speed) of an agent, next to the end of
\* PaperRacer.goto for racer 0 moving with the speed onto the position, a
\* cell with an effect on the speed
Predict(position, speed) ==
    /\ probe = None
    /\ probe' = [op |-> "apply_speed_effect", speed |-> speed, max_speed |-> 0,
                 racer |-> goto_move([racer[0] EXCEPT !.speed = speed],
                                     position),
                 predicted |-> apply_speed_effect(position, speed)]
    /\ UNCHANGED <<grid, racer, scoreboard, finished, current_racer_id, call,
                   agents, alive, answer>>

NextEffects ==
    \/ \E max_speed \in 0 .. MaxCap : \E speed \in Speeds :
          Clamp(max_speed, speed)
    \/ \E position \in SandCells : \E speed \in Speeds :
          Land(position, speed)
    \/ \E position \in SpeedCells : \E speed \in Speeds :
          Predict(position, speed)

SpecEffects == InitLine /\ [][NextEffects]_vars

(***************************************************************************)
(* PRAgent._build_h step by step: a step is one turn of the loop            *)
(* "while queue", on any map of BuildMaps and from any cell of its          *)
(* destination area.  The loop is sequential code that runs until its       *)
(* condition fails, so a step that can be taken is taken.                   *)
(***************************************************************************)
BuildPixels == {"S", "D", ".", "#", "s", "w"}

BuildMaps ==
    {rows \in [1 .. 2 -> [1 .. BuildWidth -> BuildPixels]] :
        /\ \E y \in 1 .. 2 : \E x \in 1 .. BuildWidth : rows[y][x] = "S"
        /\ \E y \in 1 .. 2 : \E x \in 1 .. BuildWidth : rows[y][x] = "D"}

\* queue.popleft() without the removal
popleft_peek(queue) == queue

\* the queue after queue.popleft()
popleft(queue) == Tail(queue)

InitBuild ==
    /\ \E rows \in BuildMaps :
         /\ load_map(rows, [i \in Racers |->
                              CHOOSE c \in load_from_bitmap(rows).startarea :
                                 \A d \in load_from_bitmap(rows).startarea :
                                    c[2] < d[2] \/ (c[2] = d[2] /\ c[1] <= d[1])])
         /\ \E start \in load_from_bitmap(rows).destarea :
               probe = [op |-> "_build_h", h |-> [p \in {start} |-> 0],
                        queue |-> <<start>>]
    /\ call = [id |-> NoRacer, position |-> None, ret |-> "None"]
    /\ agents = << >>
    /\ alive = TRUE
    /\ answer = None

\* one turn of the loop: current = queue.popleft() and the loop over the
\* neighbours of current
BuildStep ==
    /\ probe.queue # << >>
    /\ \E step \in {build_h_neighbours(
                        probe.h, popleft(probe.queue), Head(probe.queue),
                        neighbours_of_tuple(Head(probe.queue)), 1)} :
          probe' = [probe EXCEPT !.h = step.h, !.queue = step.queue]
    /\ UNCHANGED <<grid, racer, scoreboard, finished, current_racer_id, call,
                   agents, alive, answer>>

NextBuild == BuildStep

SpecBuild == InitBuild /\ [][NextBuild]_vars /\ WF_vars(NextBuild)

(***************************************************************************)
(* Properties                                                              *)
(***************************************************************************)
\* the state of the game: everything but the record of the last call
game == <<racer, scoreboard, finished, current_racer_id>>

\* in a step, the racer that moves is the current racer before the call
CrashPending(r) == r.possible_next_positions = {} /\ r.crash_position # None

Idle(r) == r.possible_next_positions # {} /\ r.crash_position = None

HasEffect(r, cls) == \E i \in DOMAIN r.effects : r.effects[i].cls = cls

\* C1: a goto of the current racer with a target that is neither one of its
\* possible next positions nor its crash position returns False and changes
\* nothing.
C1_InvalidTargetRejected ==
    [][(/\ call'.position \notin racer[current_racer_id].possible_next_positions
        /\ call'.position # racer[current_racer_id].crash_position)
       => (call'.ret = "False" /\ UNCHANGED game)]_vars

\* C2: goto is all-or-nothing: a call either fails and leaves racers,
\* scoreboard, turn pointer and finished flag as they were, or succeeds with
\* the mover's position appended to its path.
C2_AllOrNothing ==
    [][\/ (call'.ret # "True" /\ UNCHANGED game)
       \/ (/\ call'.ret = "True"
           /\ racer'[current_racer_id].path =
                 Append(racer[current_racer_id].path,
                        racer'[current_racer_id].position))]_vars

\* C3: every racer has either possible next positions and no crash position,
\* or no possible next position and a crash position.
C3_CandidatesXorFallback ==
    \A i \in Racers : Idle(racer[i]) \/ CrashPending(racer[i])

C3_Witness ==
    /\ call.ret = "True"
    /\ \E i \in Racers : CrashPending(racer[i])
    /\ \E i \in Racers : Idle(racer[i]) /\ Len(racer[i].path) > 1

\* C4: a successful goto appends exactly the mover's new position to its
\* path and leaves the other paths alone; any other call leaves every path
\* unchanged.
C4_PathAppendOnly ==
    [][/\ call'.ret = "True" =>
            /\ racer'[current_racer_id].path =
                  Append(racer[current_racer_id].path,
                         racer'[current_racer_id].position)
            /\ \A i \in Racers \ {current_racer_id} :
                  racer'[i].path = racer[i].path
       /\ call'.ret # "True" =>
            \A i \in Racers : racer'[i].path = racer[i].path]_vars

C4_Witness ==
    /\ call.ret = "True"
    /\ HasEffect(racer[call.id], "PRCrashEffect")
    /\ Len(racer[call.id].path) >= 4

\* C5: finished is true exactly when the scoreboard has an entry for every
\* racer.
C5_FinishedIffAllScored ==
    finished <=> (Cardinality(DOMAIN scoreboard) = NumRacers)

C5_Witness == finished /\ DOMAIN scoreboard = Racers

\* C6 as stated: the turn pointer is never the id of a racer on the
\* scoreboard.
C6_PointerNeverScored == current_racer_id \notin DOMAIN scoreboard

\* C6 amended: while the game is not finished, the turn pointer is not the
\* id of a racer on the scoreboard.
C6_PointerUnscoredWhileRunning ==
    ~finished => current_racer_id \notin DOMAIN scoreboard

C6_Witness ==
    /\ ~finished
    /\ DOMAIN scoreboard # {}
    /\ call.ret = "True"
    /\ call.id \in DOMAIN scoreboard

\* the first racer after m, in cyclic id order, that is not on the board sb
FirstUnscoredAfter(m, sb) ==
    LET k == CHOOSE k \in 1 .. NumRacers :
                /\ ((m + k) % NumRacers) \notin DOMAIN sb
                /\ \A j \in 1 .. (k - 1) : ((m + j) % NumRacers) \in DOMAIN sb
    IN  (m + k) % NumRacers

\* C7: after a successful goto that leaves a racer off the scoreboard, the
\* turn pointer is the first racer after the mover, in cyclic id order, that
\* is not on the scoreboard.
C7_TurnRotation ==
    [][(call'.ret = "True" /\ Cardinality(DOMAIN scoreboard') < NumRacers)
       => current_racer_id' = FirstUnscoredAfter(current_racer_id, scoreboard')]_vars

C7_Witness ==
    /\ call.ret = "True"
    /\ ~finished
    /\ DOMAIN scoreboard # {}
    /\ call.id = current_racer_id
    /\ call.id \notin DOMAIN scoreboard

\* C8: a successful goto writes scoreboard[mover] exactly when the mover
\* ends in the destination area, and writes the length of its path.
C8_ScoreOnArrival ==
    [][call'.ret = "True" =>
          IF racer'[current_racer_id].position \in grid.destarea
          THEN /\ DOMAIN scoreboard' = DOMAIN scoreboard \cup {current_racer_id}
               /\ scoreboard'[current_racer_id] =
                     Len(racer'[current_racer_id].path)
               /\ \A i \in DOMAIN scoreboard \ {current_racer_id} :
                     scoreboard'[i] = scoreboard[i]
          ELSE scoreboard' = scoreboard]_vars

C8_Witness ==
    /\ call.ret = "True"
    /\ call.id \in DOMAIN scoreboard
    /\ racer[call.id].position \in grid.destarea
    /\ scoreboard[call.id] = Len(racer[call.id].path)
    /\ Len(racer[call.id].path) >= 3

\* C9: a goto that returns False leaves racers, scoreboard, turn pointer
\* and finished flag as they were.
C9_FailureChangesNothing ==
    [][call'.ret = "False" => UNCHANGED game]_vars

C9_Witness ==
    /\ call.ret = "False"
    /\ Len(racer[call.id].path) > 1
    /\ racer[call.id].speed # <<0, 0>>

\* C10: when a racer commits a move whose target is the cell of another
\* racer, it does not end on that racer's cell and the Chebyshev magnitude
\* of its speed does not grow.
C10_CollisionBackOff ==
    [][\A b \in Racers \ {current_racer_id} :
          (call'.ret = "True" /\ call'.position = racer[b].position)
          => /\ racer'[current_racer_id].position # racer[b].position
             /\ Coord_abs(racer'[current_racer_id].speed)
                   <= Coord_abs(racer[current_racer_id].speed)]_vars

\* a step in which the current racer, with possible next positions, calls
\* goto with one of them and racer b stands on it, on another cell than the
\* current racer
CollisionMove(b) ==
    /\ b # current_racer_id
    /\ racer[b].position # racer[current_racer_id].position
    /\ Idle(racer[current_racer_id])
    /\ call'.position \in racer[current_racer_id].possible_next_positions
    /\ call'.position = racer[b].position

\* C11: a racer at p that moves onto the cell q of another racer commits the
\* move and ends on the second-to-last point of line(q, p), whatever the
\* distance between p and q.
C11_BackOffSecondToLast ==
    [][\A b \in Racers :
          CollisionMove(b) =>
             \E l \in {line(racer[b].position,
                            racer[current_racer_id].position)} :
                /\ call'.ret = "True"
                /\ Len(l) >= 2
                /\ racer'[current_racer_id].position = l[Len(l) - 1]]_vars

\* C12: after a racer moved onto the cell of racer b, the effects of b hold
\* a collision effect (maximum speed 0, priority 10) that still has a turn
\* to run, so that it clamps the speed of b on b's next move.
C12_CollisionClampsOther ==
    [][\A b \in Racers :
          CollisionMove(b) =>
             /\ call'.ret = "True"
             /\ \E i \in DOMAIN racer'[b].effects :
                   /\ racer'[b].effects[i].cls = "PRCollisionEffect"
                   /\ racer'[b].effects[i].max_speed = 0
                   /\ racer'[b].effects[i].priority = CollisionPriority
                   /\ racer'[b].effects[i].duration >= 1]_vars

\* the possible next positions the way the claim C13 words them
CandidateSet(r) ==
    {p \in {Coord_add(r.position, r.speed)}
              \cup {q \in DOMAIN grid.grid :
                      /\ dist(q, Coord_add(r.position, r.speed)) = 1
                      /\ grid.grid[q] # "BLOCK"} :
        /\ p \in DOMAIN grid.grid
        /\ \A i \in DOMAIN line(r.position, p) :
              /\ line(r.position, p)[i] \in DOMAIN grid.grid
              /\ grid.grid[line(r.position, p)[i]] # "BLOCK"}

\* C13: a racer just constructed, and a racer that has just moved with no
\* PRBiggerTargetAreaEffect in its effects before or after the move, has as
\* possible next positions exactly position + speed and the accessable
\* neighbours of position + speed that can be reached from its position on
\* a line of accessable cells.
C13_CandidateSetExact ==
    /\ \A i \in Racers :
          racer[i].possible_next_positions = CandidateSet(racer[i])
    /\ [][(/\ call'.ret = "True"
           /\ ~HasEffect(racer[current_racer_id], "PRBiggerTargetAreaEffect")
           /\ ~HasEffect(racer'[current_racer_id], "PRBiggerTargetAreaEffect"))
          => racer'[current_racer_id].possible_next_positions =
                CandidateSet(racer'[current_racer_id])]_vars

\* after a move that left the racer with a speed, position + speed is not
\* accessable and the neighbours that can be reached are what is left
C13_Witness ==
    /\ call.ret = "True"
    /\ ~HasEffect(racer[call.id], "PRBiggerTargetAreaEffect")
    /\ racer[call.id].speed # <<0, 0>>
    /\ ~is_accessable(Coord_add(racer[call.id].position, racer[call.id].speed))
    /\ racer[call.id].possible_next_positions # {}
    /\ racer[call.id].possible_next_positions = CandidateSet(racer[call.id])

\* C14 as stated: a racer that a move left without possible next positions
\* has as crash position the last point of line(position, position + speed)
\* before the first point that is not accessable; that point is accessable,
\* is_reachable from the position, and is not position + speed.
C14_FallbackReachable ==
    [][(/\ call'.ret = "True"
        /\ racer'[current_racer_id].possible_next_positions = {})
       => \E r \in {racer'[current_racer_id]} :
          \E l \in {line(r.position, Coord_add(r.position, r.speed))} :
             /\ \E k \in 1 .. (Len(l) - 1) :
                   /\ r.crash_position = l[k]
                   /\ \A j \in 1 .. k : is_accessable(l[j])
                   /\ ~is_accessable(l[k + 1])
             /\ is_accessable(r.crash_position)
             /\ is_reachable(r.position, r.crash_position)
             /\ r.crash_position # Coord_add(r.position, r.speed)]_vars

\* C14 amended: the crash position is the last point of
\* line(position, position + speed) before the first point that is not
\* accessable; it is accessable, every point of that line up to it is
\* accessable, and it is not position + speed.
C14_FallbackOnLine ==
    [][(/\ call'.ret = "True"
        /\ racer'[current_racer_id].possible_next_positions = {})
       => \E r \in {racer'[current_racer_id]} :
          \E l \in {line(r.position, Coord_add(r.position, r.speed))} :
             /\ \E k \in 1 .. (Len(l) - 1) :
                   /\ r.crash_position = l[k]
                   /\ \A j \in 1 .. k : is_accessable(l[j])
                   /\ ~is_accessable(l[k + 1])
             /\ is_accessable(r.crash_position)
             /\ r.crash_position # Coord_add(r.position, r.speed)]_vars

\* a crash position two points down the line, which line(position,
\* crash_position) reaches over a BLOCK
C14_Witness ==
    /\ call.ret = "True"
    /\ CrashPending(racer[call.id])
    /\ dist(racer[call.id].position, racer[call.id].crash_position) >= 2
    /\ ~is_reachable(racer[call.id].position, racer[call.id].crash_position)

\* C15: a racer with a crash position and no possible next position that
\* calls goto moves to the crash position, whatever the target; afterwards
\* its speed is (0,0), it carries a PRCrashEffect, it has no crash position,
\* and its possible next positions, computed from speed (0,0), hold at
\* least its own position.
C15_CrashCommit ==
    [][CrashPending(racer[current_racer_id])
       => /\ call'.ret = "True"
          /\ racer'[current_racer_id].position =
                racer[current_racer_id].crash_position
          /\ racer'[current_racer_id].speed = <<0, 0>>
          /\ HasEffect(racer'[current_racer_id], "PRCrashEffect")
          /\ racer'[current_racer_id].crash_position = None
          /\ racer'[current_racer_id].position
                \in racer'[current_racer_id].possible_next_positions
          /\ CandidateSet(racer'[current_racer_id])
                \subseteq racer'[current_racer_id].possible_next_positions]_vars

\* the racer has just moved down the line to its crash position
C15_Witness ==
    /\ call.ret = "True"
    /\ \E i \in DOMAIN racer[call.id].effects :
          /\ racer[call.id].effects[i].cls = "PRCrashEffect"
          /\ racer[call.id].effects[i].duration = CrashDuration - 1
    /\ Len(racer[call.id].path) >= 3
    /\ racer[call.id].path[Len(racer[call.id].path) - 1]
          # racer[call.id].position
    /\ racer[call.id].speed = <<0, 0>>
    /\ racer[call.id].position \in racer[call.id].possible_next_positions

\* C16: line(a, a) is the list of a alone; for a # b, line(a, b) has
\* max(|dx|, |dy|) + 1 points, the first is a and the last is b.
C16_LineShape ==
    probe # None =>
       IF probe.p1 = probe.p2
       THEN probe.line = <<probe.p1>>
       ELSE /\ Len(probe.line) =
                  MaxInt(AbsInt(probe.p1[1] - probe.p2[1]),
                         AbsInt(probe.p1[2] - probe.p2[2])) + 1
            /\ probe.line[1] = probe.p1
            /\ probe.line[Len(probe.line)] = probe.p2

\* a line of five points from a point off the grid, neither straight nor
\* diagonal
C16_Witness ==
    /\ probe # None
    /\ Len(probe.line) = 5
    /\ probe.p1[1] < 0
    /\ AbsInt(probe.p1[2] - probe.p2[2]) \in 1 .. 3
    /\ probe.line[1] = probe.p1
    /\ probe.line[5] = probe.p2

Reverse(l) == [i \in 1 .. Len(l) |-> l[Len(l) + 1 - i]]

\* C17: line(b, a) is line(a, b) read backwards, and is_reachable(a, b) is
\* is_reachable(b, a).
C17_LineReverse ==
    probe # None =>
       /\ line(probe.p2, probe.p1) = Reverse(probe.line)
       /\ is_reachable(probe.p1, probe.p2) <=> is_reachable(probe.p2, probe.p1)

\* the middle of the line is half-way between two cells, one of them a
\* BLOCK, and the line is drawn over the other one
C17_Witness ==
    /\ probe # None
    /\ Len(probe.line) = 3
    /\ (probe.p1[2] + probe.p2[2]) % 2 = 1
    /\ is_reachable(probe.p1, probe.p2)
    /\ is_reachable(probe.p2, probe.p1)
    /\ \E q \in DOMAIN grid.grid :
          /\ grid.grid[q] = "BLOCK"
          /\ q[1] = probe.line[2][1]
          /\ AbsInt(q[2] - probe.line[2][2]) = 1
          /\ 2 * q[2] \in {probe.p1[2] + probe.p2[2] - 1,
                            probe.p1[2] + probe.p2[2] + 1}

\* a step of run taken for a racer whose agent is of one of the classes
RunStep(classes) ==
    /\ current_racer_id \in DOMAIN agents
    /\ agents' = agents
    /\ agents[current_racer_id].cls \in classes

\* the call of next_position in the step returned, and what it returned is
\* one of the possible next positions that the racer had before the call
\* or, when it had none, its crash position
ReturnedLegalMove ==
    /\ answer'.returned
    /\ IF racer[current_racer_id].possible_next_positions # {}
       THEN answer'.value \in racer[current_racer_id].possible_next_positions
       ELSE answer'.value = racer[current_racer_id].crash_position

\* the cells joined to a cell of S by steps between accessible neighbours
RECURSIVE Connected(_)
Connected(S) ==
    IF UNION {neighbours(p) : p \in S} \subseteq S
    THEN S
    ELSE Connected(S \cup UNION {neighbours(p) : p \in S})

\* the map lets the relaxation from any destination cell reach every
\* accessible cell
EveryCellConnected ==
    \A d \in grid.destarea :
       Connected({d}) = {p \in DOMAIN grid.grid : is_accessable(p)}

C19_LookaheadMoveAccepted ==
    [][RunStep({"SimplePRAgent2"})
       => ReturnedLegalMove /\ call'.ret = "True"]_vars

\* C20: in every game state, next_position of AStarPRAgent returns one of
\* the possible next positions of its racer when there are any (the first
\* step of the path that build_path gives), and the racer's crash position
\* when there are none.
C20_AStarFirstStepCandidate ==
    [][RunStep({"AStarPRAgent"}) => ReturnedLegalMove]_vars

\* C21: a call of next_position of DFSPRAgent leaves the game as it was:
\* the racers with their positions, speeds, paths, effects, possible next
\* positions and crash positions, the scoreboard, the current racer and
\* finished are the same after the call as before it, whether it returned
\* or raised and whatever was played on the copies.
C21_PlayoutsLeaveGame ==
    [][RunStep({"DFSPRAgent"}) => answer'.gamestate = GameState]_vars

\* a DFSPRAgent has returned a possible next position, which it played on a
\* copy of the game before, and the racer has made the move
C21_Witness ==
    /\ answer # None
    /\ answer.returned
    /\ agents[answer.racer_id].cls = "DFSPRAgent"
    /\ answer.gamestate.racer[answer.racer_id].possible_next_positions # {}
    /\ call.ret = "True"
    /\ racer[answer.racer_id].position = answer.value

\* C22: when one of the possible next positions of its racer is in the
\* destination area, next_position of SimplePRAgent returns a possible next
\* position that is in the destination area.
C22_GreedyTakesDestination ==
    [][RunStep({"SimplePRAgent"})
          /\ racer[current_racer_id].possible_next_positions
                \cap grid.destarea # {}
       => /\ answer'.returned
          /\ answer'.value \in racer[current_racer_id].possible_next_positions
                                  \cap grid.destarea]_vars

AllStreet ==
    \A p \in DOMAIN grid.grid : is_accessable(p) => grid.grid[p] = "STREET"

\* the length of the shortest path from a cell of S to p by steps between
\* accessible neighbours, k being the length that reaches S
RECURSIVE PathLength(_, _, _)
PathLength(S, p, k) ==
    IF p \in S
    THEN k
    ELSE PathLength(S \cup UNION {neighbours(q) : q \in S}, p, k + 1)

\* C24: in the dict h of every agent the destination cell that _build_h
\* started from has the value 0 and no value is negative; on a map whose
\* accessible cells are all street cells, every cell that a path of
\* accessible neighbours joins to that cell has 5 times the length of the
\* shortest such path as its value, so that the values grow along the path.
C24_FieldValues ==
    \A i \in DOMAIN agents :
       \E start \in grid.destarea \cap DOMAIN agents[i].h :
          /\ agents[i].h[start] = 0
          /\ \A p \in DOMAIN agents[i].h : agents[i].h[p] >= 0
          /\ AllStreet =>
                \A p \in Connected({start}) :
                   /\ p \in DOMAIN agents[i].h
                   /\ agents[i].h[p] = 5 * PathLength({start}, p, 0)

\* no call of goto has been made since load_map
JustLoaded == call.id = NoRacer

\* C25: right after load_map each racer is on a cell of the start area with
\* the speed (0, 0), a path of its position alone, no effects and no crash
\* position, and its possible next positions are its own cell and the
\* accessible neighbours of that cell; the scoreboard is empty, finished is
\* False and current_racer_id is 0.
C25_AfterLoadMap ==
    JustLoaded =>
       /\ \A i \in Racers :
             /\ racer[i].position \in grid.startarea
             /\ racer[i].speed = <<0, 0>>
             /\ racer[i].path = <<racer[i].position>>
             /\ racer[i].effects = <<>>
             /\ racer[i].crash_position = None
             /\ racer[i].possible_next_positions =
                   {racer[i].position} \cup
                   {q \in {Coord_add(racer[i].position, d) : d \in Directions} :
                       is_accessable(q)}
       /\ scoreboard = << >>
       /\ ~finished
       /\ current_racer_id = 0

\* just loaded, with a racer that has a BLOCK cell of the grid next to it
C25_Witness ==
    /\ JustLoaded
    /\ \E i \in Racers : \E d \in Directions :
          /\ in_range(Coord_add(racer[i].position, d))
          /\ ~is_accessable(Coord_add(racer[i].position, d))
          /\ Cardinality(racer[i].possible_next_positions) >= 2

\* the effects that a commit attaches to the racer that was r before it and
\* is on the position afterwards: the crash effect and the effect of the cell
Attached(r, position) ==
    (IF r.crash_position # None THEN <<PRCrashEffect>> ELSE <<>>)
    \o (IF grid.grid[position] = "EFFECT" /\ position \in DOMAIN grid.effects
        THEN <<createNewEffectObj(grid.effects[position])>>
        ELSE <<>>)

\* the effects of the list with one turn less to run, without those that
\* have none left
CountedDown(effects) ==
    SelectSeq([k \in DOMAIN effects |->
                  [effects[k] EXCEPT !.duration = effects[k].duration - 1]],
              LAMBDA e : e.duration # 0)

\* how many times each effect is in the list
Counted(effects) ==
    [e \in {effects[k] : k \in DOMAIN effects} |->
        Cardinality({k \in DOMAIN effects : effects[k] = e})]

\* C26: a goto that returns True counts every effect of the mover down by
\* exactly one, those it has just attached included, and removes the
\* effects that are down to 0; the effects of the other racers are left
\* alone, and no effect in a list has a duration of 0 or less.  So an effect
\* attached with duration N acts in N commits of its racer, from the one
\* that attached it on.
C26_EffectLifecycle ==
    [][/\ call'.ret = "True" =>
            /\ Counted(racer'[current_racer_id].effects) =
                  Counted(CountedDown(
                     racer[current_racer_id].effects
                     \o Attached(racer[current_racer_id],
                                 racer'[current_racer_id].position)))
            /\ \A i \in Racers \ {current_racer_id} :
                  racer'[i].effects = racer[i].effects
       /\ \A i \in Racers : \A k \in DOMAIN racer'[i].effects :
             racer'[i].effects[k].duration >= 1]_vars

\* the mover landed on a cell with an effect of duration 2 one commit ago,
\* has left the cell with this commit, and the effect is out of its list
C26_Witness ==
    /\ call.ret = "True"
    /\ Len(racer[call.id].path) >= 3
    /\ racer[call.id].path[Len(racer[call.id].path) - 1] \in DOMAIN grid.effects
    /\ createNewEffectObj(
          grid.effects[racer[call.id].path[Len(racer[call.id].path) - 1]]
       ).duration = 2
    /\ grid.grid[racer[call.id].position] # "EFFECT"
    /\ racer[call.id].effects = <<>>

\* the positions S widened n times by the neighbours of its positions
RECURSIVE Widened(_, _)
Widened(S, n) ==
    IF n = 0 THEN S ELSE Widened(UNION {neighbours(p) : p \in S}, n - 1)

\* the number of effects on the possible next positions in the list
TargetAreaEffects(effects) ==
    Cardinality({k \in DOMAIN effects :
                    effects[k].type = "TargetAreaEffect"})

\* the speed that the effect e on the speed makes of the speed v
SpeedUnder(e, v) ==
    IF e.cls \in {"PRMultiSpeedEffect", "PRSandEffect"}
    THEN PRMultiSpeedEffect_apply(e, v)
    ELSE PRMaxSpeedEffect_apply(e, v)

\* C27: in a goto that returns True the new position is appended to the
\* path, then the effect of the landing cell is attached, then the effects
\* on the speed act, then the possible next positions and the crash position
\* are calculated, then the effects on the possible next positions act.  So
\* the crash position is the one calculated from the new position and the
\* speed the racer has after the call, the possible next positions are the
\* ones calculated from them, widened once for each of its effects on the
\* possible next positions, and a racer without effects that lands on a
\* cell with an effect on the speed leaves the call with the speed this
\* effect makes of its move.
C27_CommitOrder ==
    [][call'.ret = "True" =>
         /\ racer'[current_racer_id].path =
               Append(racer[current_racer_id].path,
                      racer'[current_racer_id].position)
         /\ racer'[current_racer_id].crash_position =
               _calc_possible_next_positions(racer'[current_racer_id]).crash_position
         /\ racer'[current_racer_id].possible_next_positions =
               Widened(_calc_possible_next_positions(
                          racer'[current_racer_id]).possible_next_positions,
                       TargetAreaEffects(
                          racer[current_racer_id].effects
                          \o Attached(racer[current_racer_id],
                                      racer'[current_racer_id].position)))
         /\ \A e \in {createNewEffectObj(grid.effects[p]) :
                         p \in DOMAIN grid.effects
                               \cap {racer'[current_racer_id].position}} :
               (/\ grid.grid[racer'[current_racer_id].position] = "EFFECT"
                /\ e.type = "SpeedEffect"
                /\ racer[current_racer_id].effects = <<>>
                /\ racer[current_racer_id].crash_position = None)
               => racer'[current_racer_id].speed =
                     SpeedUnder(e, Coord_sub(racer'[current_racer_id].position,
                                             racer[current_racer_id].position))]_vars

\* the mover has landed on a cell with an effect on the speed, its speed is
\* not its move, and it has possible next positions
C27_Witness ==
    /\ call.ret = "True"
    /\ Len(racer[call.id].path) >= 2
    /\ racer[call.id].position \in DOMAIN grid.effects
    /\ createNewEffectObj(grid.effects[racer[call.id].position]).type
          = "SpeedEffect"
    /\ racer[call.id].speed #
          Coord_sub(racer[call.id].position,
                    racer[call.id].path[Len(racer[call.id].path) - 1])
    /\ racer[call.id].possible_next_positions # {}

\* C28: apply of a PRMaxSpeedEffect with the limit c on a racer with the
\* speed v: if abs(v), the largest absolute component, is above c, the new
\* speed is round((c / abs(v)) * v) and its abs is exactly c; if not, the
\* speed is as it was.  The abs of the speed never grows.
C28_Clamp ==
    (probe # None /\ probe.op = "apply") =>
       /\ IF Coord_abs(probe.speed) > probe.max_speed
          THEN /\ probe.racer.speed =
                     <<PyRound(probe.max_speed * probe.speed[1],
                               Coord_abs(probe.speed)),
                       PyRound(probe.max_speed * probe.speed[2],
                               Coord_abs(probe.speed))>>
               /\ Coord_abs(probe.racer.speed) = probe.max_speed
          ELSE probe.racer.speed = probe.speed
       /\ Coord_abs(probe.racer.speed) <= Coord_abs(probe.speed)

\* a speed above a limit that is not 0, with two different components that
\* are not 0, was cut down
C28_Witness ==
    /\ probe # None
    /\ probe.op = "apply"
    /\ probe.max_speed > 0
    /\ Coord_abs(probe.speed) > probe.max_speed
    /\ AbsInt(probe.speed[1]) # AbsInt(probe.speed[2])
    /\ probe.speed[1] # 0
    /\ probe.speed[2] # 0
    /\ probe.racer.speed # probe.speed

\* C29: a racer without effects that ends a move of v on a sand cell leaves
\* the call with each component of v / 2 rounded, a tie going to the even
\* neighbour, as its speed: (3, 0) gives (2, 0) and (1, 0) gives (0, 0).
\* The abs of the speed does not grow, and the sand effect is not in the
\* list of the racer afterwards.
C29_SandHalves ==
    (probe # None /\ probe.op = "goto") =>
       /\ \A k \in 1 .. 2 :
             \E q \in -MaxSpeed .. MaxSpeed :
                /\ probe.racer.speed[k] = q
                /\ AbsInt(2 * q - probe.speed[k]) <= 1
                /\ AbsInt(2 * q - probe.speed[k]) = 1 => q % 2 = 0
       /\ probe.speed = <<3, 0>> => probe.racer.speed = <<2, 0>>
       /\ probe.speed = <<1, 0>> => probe.racer.speed = <<0, 0>>
       /\ Coord_abs(probe.racer.speed) <= Coord_abs(probe.speed)
       /\ ~HasEffect(probe.racer, "PRSandEffect")

\* a move of 3 in x onto a sand cell has left the speed 2 in x
C29_Witness ==
    /\ probe # None
    /\ probe.op = "goto"
    /\ probe.racer.position \in SandCells
    /\ probe.speed[1] = 3
    /\ probe.racer.speed[1] = 2

\* C30: on every map with a destination area the loop of _build_h comes to
\* an end: the queue gets empty.
C30_BuildTerminates == <>(probe.queue = << >>)

\* the queue is empty on a map with more than one destination cell and
\* cells that are not BLOCK around the start
C30_Witness ==
    /\ probe.op = "_build_h"
    /\ probe.queue = << >>
    /\ Cardinality(grid.destarea) >= 2
    /\ \A p \in DOMAIN grid.grid : is_accessable(p)

\* the dict of the loop taken step by step is the dict of _build_h
BuildAgrees ==
    probe.queue = << >> =>
       \E start \in grid.destarea : probe.h = _build_h(start)

\* C31: a call of next_position of AStarPRAgent comes to its end by
\* returning: a_star_search leaves its loop with an empty openlist and
\* next_position returns a value, in every game state.
C31_SearchReturns ==
    [][RunStep({"AStarPRAgent"}) =>
          /\ a_star_search(agents[current_racer_id], racer[current_racer_id],
                           AStarDepth).raised = "None"
          /\ a_star_search(agents[current_racer_id], racer[current_racer_id],
                           AStarDepth).st.openlist = {}
          /\ answer'.returned]_vars

\* C32: every possible next position of every racer is reachable from the
\* position of the racer, that is every point of the line from the position
\* to it is accessable, also when a PRBiggerTargetAreaEffect has acted on
\* the possible next positions; so no move crosses a BLOCK cell or a point
\* off the grid.
C32_CandidatesReachable ==
    \A i \in Racers : \A p \in racer[i].possible_next_positions :
       is_reachable(racer[i].position, p)

\* C33: the position of every racer is a point of the grid that is not a
\* BLOCK, whatever moves were made: to a possible next position, to one
\* that a PRBiggerTargetAreaEffect added, or to a crash position.
C33_PositionAccessable ==
    \A i \in Racers : is_accessable(racer[i].position)

\* the mover has gone to its crash position, and there is a BLOCK next to
\* it; the other racer is on a position that it could not have reached
\* without a PRBiggerTargetAreaEffect
C33_Witness ==
    /\ call.ret = "True"
    /\ HasEffect(racer[call.id], "PRCrashEffect")
    /\ \E d \in Directions :
          /\ in_range(Coord_add(racer[call.id].position, d))
          /\ ~is_accessable(Coord_add(racer[call.id].position, d))
    /\ \E i \in Racers \ {call.id} :
          /\ Len(racer[i].path) >= 2
          /\ ~is_reachable(racer[i].path[Len(racer[i].path) - 1],
                           racer[i].position)

\* C34: when the racers started on different cells, no two racers are on the
\* same cell, whatever moves were made since: to a possible next position,
\* towards the other racer, or to a crash position.
C34_NoSharedCell ==
    \A i \in Racers : \A j \in Racers \ {i} :
       racer[i].path[1] # racer[j].path[1]
       => racer[i].position # racer[j].position

\* C35: a racer that is on the scoreboard keeps its position, its path and
\* its entry of the scoreboard in every later call of goto, also in a call
\* made when finished is True.
C35_ScoredRacerFrozen ==
    [][\A i \in DOMAIN scoreboard :
          /\ racer'[i].position = racer[i].position
          /\ racer'[i].path = racer[i].path
          /\ i \in DOMAIN scoreboard'
          /\ scoreboard'[i] = scoreboard[i]]_vars

\* the durations of the crash effects in the list of the racer r
CrashDurations(r) ==
    {r.effects[k].duration :
        k \in {j \in DOMAIN r.effects : r.effects[j].cls = "PRCrashEffect"}}

\* C36: the goto that moves a racer to its crash position leaves it with the
\* speed (0, 0), with possible next positions and with a crash effect that
\* has 9 turns to run.  Each goto of a racer with a crash effect leaves it
\* with the speed (0, 0), with possible next positions and without a crash
\* position, and with the crash effect counted down by one; the goto that
\* counts it down to 0, the 9th after the crash, removes it, so that the
\* 10th is the first that can leave the racer with another speed.
C36_CrashSpan ==
    [][call'.ret = "True" =>
          /\ racer[current_racer_id].crash_position # None =>
                /\ racer'[current_racer_id].speed = <<0, 0>>
                /\ racer'[current_racer_id].possible_next_positions # {}
                /\ CrashDurations(racer'[current_racer_id]) = {9}
          /\ \A d \in CrashDurations(racer[current_racer_id]) :
                /\ racer'[current_racer_id].speed = <<0, 0>>
                /\ racer'[current_racer_id].possible_next_positions # {}
                /\ racer'[current_racer_id].crash_position = None
                /\ d \in 1 .. 9
                /\ CrashDurations(racer'[current_racer_id]) =
                      IF d = 1 THEN {} ELSE {d - 1}]_vars

\* a racer went from (0, 0) onto the multi-speed cell (1, 0), crashed with
\* its second move, has made ten moves since, and the tenth has left it with
\* a speed that is not (0, 0)
C36_Witness ==
    \E i \in Racers :
       /\ Len(racer[i].path) = 13
       /\ racer[i].path[1] = <<0, 0>>
       /\ racer[i].path[2] = <<1, 0>>
       /\ racer[i].path[3] = <<1, 0>>
       /\ racer[i].speed # <<0, 0>>
       /\ CrashDurations(racer[i]) = {}

\* C37: a PRBiggerTargetAreaEffect only adds to the possible next positions:
\* in a goto that returns True, every position that
\* _calc_possible_next_positions gave the mover is still one of its possible
\* next positions after the effects on them have acted, also when it gave
\* one position only.
C37_WideningKeeps ==
    [][call'.ret = "True" =>
          _calc_possible_next_positions(
             racer'[current_racer_id]).possible_next_positions
          \subseteq racer'[current_racer_id].possible_next_positions]_vars

\* C38: for a cell with a SAND, MULTISPEED or MAXSPEED effect and any speed,
\* the speed that apply_speed_effect of the agents gives for a move with
\* this speed onto the cell is the speed that the racer has after goto has
\* moved it onto the cell with this speed.
C38_PredictionMatches ==
    (probe # None /\ probe.op = "apply_speed_effect") =>
       probe.predicted = probe.racer.speed

\* C39: when the loop of _build_h has come to its end, the cells with a
\* value are the cells that steps between accessible neighbours join to the
\* cell the loop started from, and no step can lower a value any more: for
\* every cell c with a value and every accessible neighbour n of c, the
\* value of n is at most the costs of the step from c to n.
C39_FieldFixpoint ==
    (probe.op = "_build_h" /\ probe.queue = << >>) =>
       \E start \in grid.destarea :
          /\ DOMAIN probe.h = Connected({start})
          /\ \A c \in DOMAIN probe.h : \A n \in neighbours(c) :
                /\ n \in DOMAIN probe.h
                /\ probe.h[n] <= build_h_costs(probe.h, c, n)

\* C40: for a # b, every point of line(a, b) after the first differs from
\* the point before it by one of the eight directions of neighbours: the
\* two are distinct and at distance 1, so that the line leaves out no row
\* and no column between a and b and its second point is next to a.
C40_LineSteps ==
    (probe # None /\ probe.p1 # probe.p2) =>
       /\ Len(probe.line) >= 2
       /\ Coord_sub(probe.line[2], probe.p1) \in Directions
       /\ \A i \in 1 .. Len(probe.line) - 1 :
             /\ probe.line[i + 1] # probe.line[i]
             /\ Coord_sub(probe.line[i + 1], probe.line[i]) \in Directions

\* a line of at least four points that is neither straight nor diagonal:
\* one of its steps is along an axis and another one is diagonal
C40_Witness ==
    /\ probe # None
    /\ Len(probe.line) >= 4
    /\ \E i \in 1 .. Len(probe.line) - 1 :
          /\ probe.line[i + 1][1] # probe.line[i][1]
          /\ probe.line[i + 1][2] = probe.line[i][2]
    /\ \E i \in 1 .. Len(probe.line) - 1 :
          /\ probe.line[i + 1][1] # probe.line[i][1]
          /\ probe.line[i + 1][2] # probe.line[i][2]

====
